---------------------------- MODULE Spec2Model ----------------------------
(***************************************************************************)
(* AI generation orchestration of ai_lms_backend:                          *)
(*   app/ai_services/utils/circuit_breaker.py  (breaker, retry policy)     *)
(*   app/ai_services/utils/security.py         (rate limiter)              *)
(*   app/ai_services/services.py               (usage tracker, services)   *)
(*                                                                         *)
(* The specifications share the definitions of the module:                 *)
(*   SpecRetry    retry_with_backoff around an arbitrary operation         *)
(*   SpecBreaker  AIServiceCircuitBreaker.call around an arbitrary         *)
(*                operation, with a clock                                  *)
(*   Spec         generate_quiz / generate_summary / generate_flashcards   *)
(*                through circuit_breaker('ai_service') and                *)
(*                retry_with_backoff(3, 1.0) around generate_content       *)
(*   SpecHours    the same services with a clock that moves in hours       *)
(*   SpecProcs    the same services called by two worker processes         *)
(*   SpecRate     RateLimiter.check_rate_limit by concurrent callers       *)
(*   SpecUsage    AIUsageTracker.check_usage_limit on the usage tables     *)
(*   SpecCtor     EnhancedAIService.__init__ and the provider's            *)
(*                generate_text, then generation                           *)
(*   SpecAuth     generation against a provider that rejects the API key   *)
(*   SpecHealth   generation and AICircuitBreakerHealthCheck               *)
(*   SpecCrypt    log_usage and EncryptionManager                          *)
(*   SpecValidate ContentValidator.validate_educational_content            *)
(*   SpecSanitize ContentValidator.sanitize_user_input                     *)
(*   SpecRegistry get_circuit_breaker by the threads of one process        *)
(*                                                                         *)
(* Error messages are sequences of words; str(e).lower() and the `in`      *)
(* substring tests of should_retry are computed on them.                   *)
(***************************************************************************)
EXTENDS Integers, Sequences, FiniteSets, Bags, TLC

VARIABLES
    \* ---- retry_with_backoff harness
    rMax,        \* max_attempts of the decorated operation
    rBase,       \* base_delay of the decorated operation
    rAttempt,    \* the loop variable `attempt`
    rLast,       \* last_exception (NoError when None)
    rTrace,      \* what the wrapper did so far: calls of func and sleeps
    rPc,         \* "loop", "raise" (after the loop), "returned", "raised", "probed"
    rOut,        \* the value returned or the error raised by the wrapper
    srProbe,     \* last evaluation of should_retry on free arguments
    \* ---- circuit breakers and the clock
    breakers,    \* _circuit_breakers: name -> state of the breaker of that name
    now,         \* wall clock, seconds
    \* ---- AIServiceCircuitBreaker.call harness
    hPc,         \* per caller: "idle", or the name of the breaker whose wrapped
                 \* operation it is inside
    hOut,        \* how the call that ended last ended
    gConsec,     \* per name: failed invocations in a row (observer)
    gOpenedAt,   \* per name: when the observer last saw the breaker open
    gEarly,      \* per name: an invocation was let through while open and in time-out
    gLate,       \* per name: a call was rejected though not open, or after the time-out
    \* ---- generation services
    rate,        \* cache entries ai_rate_limit:<user>:<service>: count and expiry
    usage,       \* per user: AIUsageLog rows with success=True in the current month
    monthly_limit, \* per user: the monthly limit of the user's role
    cached,      \* the cached results: key (kind, hash), expiry, validation score
    wPc,         \* per worker: "idle", "breaker", "attempt", "provider", "post", "except",
                 \* "returned", "raised"
    wUser,       \* per worker: user of its call
    wKind,       \* per worker: service kind of its call
    wAttempt,    \* per worker: the retry loop's `attempt`
    wErr,        \* per worker: the exception its call raised
    wTrace,      \* per worker: what its current or last call did
    \* ---- RateLimiter.check_rate_limit harness: one (user, service) key
    lStore,      \* the cache entry of the key: count and expiry (NoEntry when unset)
    lLimit,      \* the `limit` argument
    lWindow,     \* the `window` argument
    lPc,         \* per caller: "idle", or "set" between cache.get and cache.set
    lRead,       \* per caller: current_count as cache.get returned it
    lHist,       \* the calls that returned, in order: time, result, count stored
    lOverlap,    \* a call began while another was between its get and its set
    \* ---- AIUsageTracker.check_usage_limit harness
    uLogs,       \* AIUsageLog rows: user, success, created_at
    uRoleLimit,  \* AIUsageLimit.monthly_limit of the user's role (NoRow when none)
    uSetting,    \* settings.AI_USAGE_LIMITS entry of the role (NoRow when none)
    uProbe,      \* the last decision of check_usage_limit and what it was made on
    \* ---- EnhancedAIService objects
    sConfig,     \* the AIServiceConfig row of the service (NoConfig when none)
    svc,         \* the service object of the request: its config and provider,
                 \* and what building each provider did when it was made
    resp,        \* the AIResponse generate_content got from provider.generate_text
    \* ---- EncryptionManager and the payloads of the usage records
    eKey,        \* settings.ENCRYPTION_KEY: "unset", "valid" or "malformed"
    eMgrs,       \* the EncryptionManager objects made in the process: their keys
    eLogs,       \* request_data of the AIUsageLog rows log_usage created
    eOut,        \* how the last log_usage or decrypt ended
    \* ---- AICircuitBreakerHealthCheck
    health,      \* the last report of check_status
    \* ---- ContentValidator on one text
    fIn,         \* the text given to the validator
    fOut,        \* what the validator returned for it
    \* ---- get_circuit_breaker by the threads of one process
    registry,    \* _circuit_breakers: name -> the breaker object stored under it
    instances,   \* the AIServiceCircuitBreaker objects built so far: name, failures
    tPc,         \* per thread: "idle", "create", "return" or "call"
    tName,       \* per thread: the service_name it asked for
    tHeld        \* per thread: the breaker object get_circuit_breaker returned

retryVars == <<rMax, rBase, rAttempt, rLast, rTrace, rPc, rOut, srProbe>>

breakerVars == <<breakers, now>>

harnessVars == <<hPc, hOut, gConsec, gOpenedAt, gEarly, gLate>>

svcVars == <<rate, usage, monthly_limit, cached,
             wPc, wUser, wKind, wAttempt, wErr, wTrace>>

limitVars == <<lStore, lLimit, lWindow, lPc, lRead, lHist, lOverlap,
               uLogs, uRoleLimit, uSetting, uProbe>>

ctorVars == <<sConfig, svc, resp>>

cryptVars == <<eKey, eMgrs, eLogs, eOut>>

healthVars == <<health>>

fnVars == <<fIn, fOut>>

regVars == <<registry, instances, tPc, tName, tHeld>>

auxVars == <<ctorVars, cryptVars, healthVars, fnVars, regVars>>

vars == <<retryVars, breakerVars, harnessVars, svcVars, limitVars, auxVars>>

----------------------------------------------------------------------------
(* Bounds of the model *)

MaxAttemptsBound == 4      \* max_attempts is drawn from 0..MaxAttemptsBound

TickStep == 30             \* seconds the clock advances in one step
MaxTime == 150             \* the clock stops here
NumCallers == 2            \* concurrent callers of one process
MaxMonthlyLimit == 2       \* monthly limits are drawn from 1..MaxMonthlyLimit
RateHeadroom == 2          \* requests left in the hour when a behaviour starts
MaxRateLimit == 2          \* check_rate_limit's limit is drawn from 1..MaxRateLimit
MaxChecks == 4             \* calls of check_rate_limit in one behaviour
MaxLogs == 3               \* AIUsageLog rows in one behaviour
HourStep == 3600           \* seconds the clock advances in one long step
MaxHours == 5              \* long steps of the clock in one behaviour

(* Program constants *)

failure_threshold == 5     \* AIServiceCircuitBreaker(failure_threshold=5)
recovery_timeout == 60     \* AIServiceCircuitBreaker(recovery_timeout=60)

DefaultMaxDelay == 60      \* exponential_backoff(max_delay=60.0)
rate_limit == 10           \* check_rate_limit(user, service_type, limit=10, ...)
rate_window == 3600        \* check_rate_limit(..., window=3600), and retry_after
default_monthly_limit == 50  \* settings.AI_USAGE_LIMITS.get(user.role, 50)
retry_max_attempts == 3    \* @retry_with_backoff(max_attempts=3, ...)
retry_base_delay == 1      \* @retry_with_backoff(..., base_delay=1.0)
quiz_cache_score == 80     \* generate_quiz caches when score >= 80
other_cache_score == 70    \* generate_summary / generate_flashcards: score >= 70
quiz_cache_ttl == 7200     \* cache.set(cache_key, final_result, 7200)
other_cache_ttl == 14400   \* cache.set(cache_key, final_result, 14400)

BaseDelays == {1, 16}      \* base_delay values tried (16 * 2^2 exceeds max_delay)

----------------------------------------------------------------------------
(* Error messages *)

NoError == <<>>

MsgMonthly == <<"Monthly", "limit", "exceeded">>
MsgRate == <<"Rate", "limit", "exceeded", "(10", "requests", "per", "hour)">>
MsgTimeout == <<"Connection", "timed", "out">>
MsgAuth == <<"Authentication", "failed">>
MsgUnauthorized == <<"401", "Unauthorized">>
MsgQuota == <<"Quota", "exceeded">>
MsgNoneRaised == <<"TypeError:", "exceptions", "must", "derive", "from", "BaseException">>

\* str.lower() on one word of the vocabulary
LowerWord(w) ==
    CASE w = "Monthly" -> "monthly"
      [] w = "Rate" -> "rate"
      [] w = "Connection" -> "connection"
      [] w = "Authentication" -> "authentication"
      [] w = "Unauthorized" -> "unauthorized"
      [] w = "Quota" -> "quota"
      [] w = "TypeError:" -> "typeerror:"
      [] w = "BaseException" -> "baseexception"
      [] w = "AI" -> "ai"
      [] w = "Timeout" -> "timeout"
      [] w = "Failures" -> "failures"
      [] w = "Trial" -> "trial"
      [] OTHER -> w

Lower(msg) == [i \in DOMAIN msg |-> LowerWord(msg[i])]

\* `phrase in msg` for a phrase made of whole words
Contains(msg, phrase) ==
    \E i \in 1..(Len(msg) - Len(phrase) + 1) :
        SubSeq(msg, i, i + Len(phrase) - 1) = phrase

Min(a, b) == IF a <= b THEN a ELSE b

----------------------------------------------------------------------------
(* RetryManager *)

\* mutant: the delay is not capped at max_delay
exponential_backoff_uncapped(attempt, base_delay) ==
    base_delay * (2 ^ attempt)

exponential_backoff(attempt, base_delay) ==
    Min(base_delay * (2 ^ attempt), DefaultMaxDelay)

\* mutant: quota and rate-limit errors are retried like any other
should_retry_quota_retried(exception, attempt, max_attempts) ==
    IF attempt >= max_attempts THEN FALSE
    ELSE IF Contains(Lower(exception), <<"authentication">>)
            \/ Contains(Lower(exception), <<"unauthorized">>) THEN FALSE
    ELSE TRUE

should_retry(exception, attempt, max_attempts) ==
    IF attempt >= max_attempts THEN FALSE
    ELSE IF Contains(Lower(exception), <<"authentication">>)
            \/ Contains(Lower(exception), <<"unauthorized">>) THEN FALSE
    ELSE IF Contains(Lower(exception), <<"quota">>)
            \/ Contains(Lower(exception), <<"rate", "limit">>) THEN FALSE
    ELSE TRUE

\* mutant: the wrapper also sleeps after the last attempt
RetryDecision_sleep_always(e, attempt, max_attempts, base_delay) ==
    IF ~should_retry(e, attempt, max_attempts)
    THEN [break |-> TRUE, sleep |-> FALSE, delay |-> 0]
    ELSE [break |-> FALSE, sleep |-> TRUE,
          delay |-> exponential_backoff(attempt, base_delay)]

\* The except-branch of one iteration of retry_with_backoff's loop:
\* whether the loop breaks, and whether and how long it sleeps.
RetryDecision(e, attempt, max_attempts, base_delay) ==
    IF ~should_retry(e, attempt, max_attempts)
    THEN [break |-> TRUE, sleep |-> FALSE, delay |-> 0]
    ELSE IF attempt < max_attempts - 1
         THEN [break |-> FALSE, sleep |-> TRUE,
               delay |-> exponential_backoff(attempt, base_delay)]
         ELSE [break |-> FALSE, sleep |-> FALSE, delay |-> 0]

----------------------------------------------------------------------------
(* AIServiceCircuitBreaker: a pybreaker CircuitBreaker(fail_max=5,         *)
(* reset_timeout=60, exclude=[KeyboardInterrupt]) per name, kept in the    *)
(* process-wide dictionary _circuit_breakers.  The breaker holds its lock  *)
(* for the whole of a call, the wrapped operation included.                *)

Names == {"ai_service", "quiz_generation"}     \* breaker names in use
Callers == 1..NumCallers
NoTime == -1                                   \* opened_at is None
NoCaller == 0

MsgStillOpen == <<"Timeout", "not", "elapsed", "yet,", "circuit", "breaker", "still", "open">>
MsgTripped == <<"Failures", "threshold", "reached,", "circuit", "breaker", "opened">>
MsgTrialFailed == <<"Trial", "call", "failed,", "circuit", "breaker", "opened">>

NewBreaker == [state |-> "closed", fail_counter |-> 0, opened_at |-> NoTime,
               lock |-> NoCaller]

\* get_circuit_breaker: the dictionary after the lookup (the breaker is created if absent)
get_circuit_breaker(brs, name) ==
    IF name \in DOMAIN brs THEN brs ELSE brs @@ (name :> NewBreaker)

\* mutant: calls do not wait for the breaker's lock
LockFree_unlocked(b) == TRUE

\* the breaker's lock is free
LockFree(b) == b.lock = NoCaller

\* mutant: once the time-out has elapsed the breaker closes at once
before_call_closes(b, t) ==
    IF b.state = "open"
    THEN IF b.opened_at # NoTime /\ t < b.opened_at + recovery_timeout
         THEN [b |-> b, pass |-> FALSE, err |-> MsgStillOpen]
         ELSE [b |-> [b EXCEPT !.state = "closed"], pass |-> TRUE, err |-> NoError]
    ELSE [b |-> b, pass |-> TRUE, err |-> NoError]

\* Entry of a call at time t: an open breaker rejects the call until
\* reset_timeout has elapsed since opened_at, then turns half-open and lets it in.
before_call(b, t) ==
    IF b.state = "open"
    THEN IF b.opened_at # NoTime /\ t < b.opened_at + recovery_timeout
         THEN [b |-> b, pass |-> FALSE, err |-> MsgStillOpen]
         ELSE [b |-> [b EXCEPT !.state = "half-open"], pass |-> TRUE, err |-> NoError]
    ELSE [b |-> b, pass |-> TRUE, err |-> NoError]

\* mutant: the closed breaker opens only when the counter exceeds fail_max
handle_error_late(b, t, exc) ==
    LET inc == [b EXCEPT !.fail_counter = @ + 1] IN
    IF b.state = "half-open"
    THEN [b |-> [inc EXCEPT !.state = "open", !.opened_at = t], err |-> MsgTrialFailed]
    ELSE IF inc.fail_counter > failure_threshold
         THEN [b |-> [inc EXCEPT !.state = "open", !.opened_at = t], err |-> MsgTripped]
         ELSE [b |-> inc, err |-> exc]

\* The wrapped operation raised exc at time t: the failure is counted; the
\* closed breaker opens at fail_max failures, the half-open one reopens.  A
\* call that opens the breaker raises the breaker's error instead of exc.
handle_error(b, t, exc) ==
    LET inc == [b EXCEPT !.fail_counter = @ + 1] IN
    IF b.state = "half-open"
    THEN [b |-> [inc EXCEPT !.state = "open", !.opened_at = t], err |-> MsgTrialFailed]
    ELSE IF inc.fail_counter >= failure_threshold
         THEN [b |-> [inc EXCEPT !.state = "open", !.opened_at = t], err |-> MsgTripped]
         ELSE [b |-> inc, err |-> exc]

\* mutant: a successful trial leaves the breaker half-open
handle_success_stays(b) ==
    [b EXCEPT !.fail_counter = 0]

\* The wrapped operation returned (or raised the excluded KeyboardInterrupt):
\* the counter is reset and the half-open breaker closes.
handle_success(b) ==
    [b EXCEPT !.fail_counter = 0,
              !.state = IF @ = "half-open" THEN "closed" ELSE @]

BreakersIdle ==
    /\ breakers = <<>>
    /\ now = 0

----------------------------------------------------------------------------
(* State of the generation services *)

Workers == {1}
Users == {"u1"}
Kinds == {"quiz_generation", "lesson_summary", "flashcard_generation"}

\* ---- the cache entry of a rate-limit key
NoEntry == [count |-> 0, expires |-> NoTime]

\* cache.get(key, 0): the stored count while the entry has not expired
cache_get(entry, t) ==
    IF entry.expires # NoTime /\ t < entry.expires THEN entry.count ELSE 0

\* cache.set(key, value, timeout) at time t
cache_set(value, timeout, t) == [count |-> value, expires |-> t + timeout]

\* no request in progress, nothing counted, logged or cached
ServiceIdle ==
    /\ rate = [u \in Users |-> [k \in Kinds |-> NoEntry]]
    /\ usage = [u \in Users |-> 0]
    /\ monthly_limit = [u \in Users |-> 1]
    /\ cached = {}
    /\ wPc = [w \in Workers |-> "idle"]
    /\ wUser = [w \in Workers |-> "u1"]
    /\ wKind = [w \in Workers |-> "quiz_generation"]
    /\ wAttempt = [w \in Workers |-> 0]
    /\ wErr = [w \in Workers |-> NoError]
    /\ wTrace = [w \in Workers |-> <<>>]

----------------------------------------------------------------------------
(* The usage tables *)

NoRow == -1

UsageProbeNone == [made |-> FALSE]

LimitsIdle ==
    /\ lStore = NoEntry
    /\ lLimit = rate_limit
    /\ lWindow = rate_window
    /\ lPc = [c \in Callers |-> "idle"]
    /\ lRead = [c \in Callers |-> [count |-> 0, at |-> 0]]
    /\ lHist = <<>>
    /\ lOverlap = FALSE
    /\ uLogs = <<>>
    /\ uRoleLimit = NoRow
    /\ uSetting = NoRow
    /\ uProbe = UsageProbeNone

\* ---- what the specifications of the other components leave alone
NoConfig == [exists |-> FALSE]
NoService == [state |-> "none"]
NoResponse == [made |-> FALSE]
NoOp == [op |-> "none"]
NoReport == [made |-> FALSE]
NoResult == [made |-> FALSE]

CryptIdle ==
    /\ eKey = "unset"
    /\ eMgrs = <<>>
    /\ eLogs = <<>>
    /\ eOut = NoOp

HealthIdle == health = NoReport

ValidatorIdle ==
    /\ fIn = <<>>
    /\ fOut = NoResult

NoObject == 0

RegistryIdle ==
    /\ registry = <<>>
    /\ instances = <<>>
    /\ tPc = [c \in Callers |-> "idle"]
    /\ tName = [c \in Callers |-> "ai_service"]
    /\ tHeld = [c \in Callers |-> NoObject]

CtorIdle ==
    /\ sConfig = NoConfig
    /\ svc = NoService
    /\ resp = NoResponse

AuxIdle ==
    /\ CtorIdle
    /\ CryptIdle
    /\ HealthIdle
    /\ RegistryIdle
    /\ ValidatorIdle

----------------------------------------------------------------------------
(* SpecBreaker: get_circuit_breaker(name).call(func) by several callers,   *)
(* func's outcome arbitrary, and the clock.                                *)

Outcomes == {"ok", "fail", "interrupt"}

ProbeNone == [exception |-> NoError, attempt |-> 0, max_attempts |-> 0, result |-> FALSE]

HarnessIdle ==
    /\ hPc = [c \in Callers |-> "idle"]
    /\ hOut = [kind |-> "none", err |-> NoError]
    /\ gConsec = [n \in Names |-> 0]
    /\ gOpenedAt = [n \in Names |-> NoTime]
    /\ gEarly = [n \in Names |-> FALSE]
    /\ gLate = [n \in Names |-> FALSE]

RetryIdle ==
    /\ rMax = 0 /\ rBase = 1 /\ rAttempt = 0 /\ rLast = NoError
    /\ rTrace = <<>> /\ rPc = "off" /\ rOut = NoError /\ srProbe = ProbeNone

InitBreaker ==
    /\ RetryIdle
    /\ BreakersIdle
    /\ HarnessIdle
    /\ ServiceIdle
    /\ LimitsIdle
    /\ AuxIdle

\* breaker.call(func) up to func's invocation: rejected, or func is entered
BreakerCallBegin(c, n) ==
    /\ hPc[c] = "idle"
    /\ LET brs == get_circuit_breaker(breakers, n)
           r == before_call(brs[n], now)
       IN  /\ LockFree(brs[n])
           /\ IF r.pass
              THEN /\ breakers' = [brs EXCEPT ![n] = [r.b EXCEPT !.lock = c]]
                   /\ hPc' = [hPc EXCEPT ![c] = n]
                   /\ hOut' = hOut
              ELSE /\ breakers' = [brs EXCEPT ![n] = r.b]
                   /\ hPc' = hPc
                   /\ hOut' = [kind |-> "rejected", err |-> r.err]
           /\ gEarly' = [gEarly EXCEPT ![n] =
                 @ \/ (r.pass /\ brs[n].state = "open"
                       /\ now - gOpenedAt[n] < recovery_timeout)]
           /\ gLate' = [gLate EXCEPT ![n] =
                 @ \/ (~r.pass /\ (brs[n].state # "open"
                                   \/ now - gOpenedAt[n] >= recovery_timeout))]
    /\ UNCHANGED <<auxVars, now, gConsec, gOpenedAt, retryVars, svcVars, limitVars>>

\* mutant: a call that succeeds leaves the failure counter as it was
BreakerCallEnd_no_reset(c, o) ==
    /\ hPc[c] # "idle"
    /\ LET n == hPc[c]
           b == breakers[n]
           r == IF o = "fail" THEN handle_error(b, now, MsgTimeout)
                ELSE [b |-> [b EXCEPT !.state = IF @ = "half-open" THEN "closed" ELSE @],
                      err |-> NoError]
       IN  /\ breakers' = [breakers EXCEPT ![n] = [r.b EXCEPT !.lock = NoCaller]]
           /\ hOut' = [kind |-> o, err |-> r.err]
           /\ gConsec' = [gConsec EXCEPT ![n] = IF o = "fail" THEN @ + 1 ELSE 0]
           /\ gOpenedAt' = [gOpenedAt EXCEPT ![n] =
                 IF r.b.state = "open" /\ b.state # "open" THEN now ELSE @]
    /\ hPc' = [hPc EXCEPT ![c] = "idle"]
    /\ UNCHANGED <<auxVars, now, gEarly, gLate, retryVars, svcVars, limitVars>>

\* func ends with outcome o: the breaker's bookkeeping, then the lock is released
BreakerCallEnd(c, o) ==
    /\ hPc[c] # "idle"
    /\ LET n == hPc[c]
           b == breakers[n]
           r == IF o = "fail" THEN handle_error(b, now, MsgTimeout)
                ELSE [b |-> handle_success(b), err |-> NoError]
       IN  /\ breakers' = [breakers EXCEPT ![n] = [r.b EXCEPT !.lock = NoCaller]]
           /\ hOut' = [kind |-> o, err |-> r.err]
           /\ gConsec' = [gConsec EXCEPT ![n] = IF o = "fail" THEN @ + 1 ELSE 0]
           /\ gOpenedAt' = [gOpenedAt EXCEPT ![n] =
                 IF r.b.state = "open" /\ b.state # "open" THEN now ELSE @]
    /\ hPc' = [hPc EXCEPT ![c] = "idle"]
    /\ UNCHANGED <<auxVars, now, gEarly, gLate, retryVars, svcVars, limitVars>>

Tick ==
    /\ now + TickStep <= MaxTime
    /\ now' = now + TickStep
    /\ UNCHANGED <<auxVars, breakers, harnessVars, retryVars, svcVars, limitVars>>

NextBreaker ==
    \/ \E c \in Callers, n \in Names : BreakerCallBegin(c, n)
    \/ \E c \in Callers, o \in Outcomes : BreakerCallEnd(c, o)
    \/ Tick

SpecBreaker == InitBreaker /\ [][NextBreaker]_vars

----------------------------------------------------------------------------
(* Claims on the circuit breaker (SpecBreaker) *)

Inside(n) == {c \in Callers : hPc[c] = n}

(* C2: after failure_threshold (5) failed calls in a row through a breaker *)
(* the breaker is open, and a call made less than recovery_timeout (60 s)  *)
(* after it opened is rejected with the circuit-open error and the wrapped *)
(* operation is not invoked.                                               *)
C2_OpensAndRejects ==
    \A n \in DOMAIN breakers :
        /\ (gConsec[n] >= failure_threshold /\ LockFree(breakers[n]))
              => breakers[n].state = "open"
        /\ ~gEarly[n]
        /\ (breakers[n].state = "open" /\ now - gOpenedAt[n] < recovery_timeout)
              => Inside(n) = {}
        /\ hOut.kind = "rejected" => hOut.err = MsgStillOpen

C2_Witness ==
    /\ "ai_service" \in DOMAIN breakers
    /\ breakers["ai_service"].state = "open"
    /\ gConsec["ai_service"] = failure_threshold
    /\ hOut = [kind |-> "rejected", err |-> MsgStillOpen]
    /\ now > gOpenedAt["ai_service"]
    /\ now - gOpenedAt["ai_service"] < recovery_timeout

(* C3: once recovery_timeout has elapsed since the breaker opened a call   *)
(* is let through as the half-open trial, and it is the only one: while    *)
(* the breaker is half-open exactly one caller is inside the wrapped       *)
(* operation, and after a failed trial no call is let through before a     *)
(* further recovery_timeout has elapsed since that failure.                *)
C3_OneTrial ==
    \A n \in DOMAIN breakers :
        /\ breakers[n].state = "half-open" => Cardinality(Inside(n)) = 1
        /\ breakers[n].state = "open" => Inside(n) = {}
        /\ ~gLate[n]
        /\ ~gEarly[n]

C3_Witness ==
    /\ "ai_service" \in DOMAIN breakers
    /\ breakers["ai_service"].state = "half-open"
    /\ Cardinality(Inside("ai_service")) = 1
    /\ gConsec["ai_service"] > failure_threshold
    /\ now - gOpenedAt["ai_service"] >= recovery_timeout

(* C4: the outcome of the half-open trial decides the next state: a        *)
(* successful trial sets the failure counter to 0 and the state to closed, *)
(* a failed trial sets the state to open and opened_at to the time of the  *)
(* failure.                                                                *)
C4_TrialDecides ==
    [][\A c \in Callers :
          (hPc[c] # "idle" /\ hPc'[c] = "idle"
           /\ breakers[hPc[c]].state = "half-open")
             => /\ hOut'.kind = "ok"
                   => /\ breakers'[hPc[c]].state = "closed"
                      /\ breakers'[hPc[c]].fail_counter = 0
                /\ hOut'.kind = "fail"
                   => /\ breakers'[hPc[c]].state = "open"
                      /\ breakers'[hPc[c]].opened_at = now
                      /\ gOpenedAt'[hPc[c]] = now]_vars

C4_Witness ==
    /\ DOMAIN breakers = Names
    /\ breakers["ai_service"].state = "closed"
    /\ breakers["ai_service"].fail_counter = 0
    /\ gOpenedAt["ai_service"] # NoTime
    /\ breakers["quiz_generation"].state = "open"
    /\ breakers["quiz_generation"].opened_at = now
    /\ now >= recovery_timeout
    /\ hOut = [kind |-> "fail", err |-> MsgTrialFailed]

(* C5: every breaker is always in exactly one of closed, open, half-open,  *)
(* and its state changes only closed->open, open->half-open,               *)
(* half-open->closed or half-open->open.                                   *)
C5_StateMachine ==
    /\ [](\A n \in DOMAIN breakers :
             breakers[n].state \in {"closed", "open", "half-open"})
    /\ [][\A n \in DOMAIN breakers :
             /\ n \in DOMAIN breakers'
             /\ \/ breakers'[n].state = breakers[n].state
                \/ <<breakers[n].state, breakers'[n].state>> \in
                      {<<"closed", "open">>, <<"open", "half-open">>,
                       <<"half-open", "closed">>, <<"half-open", "open">>}]_vars

C5_Witness ==
    /\ DOMAIN breakers = Names
    /\ breakers["quiz_generation"].state = "closed"
    /\ gOpenedAt["quiz_generation"] # NoTime
    /\ breakers["ai_service"].state = "half-open"
    /\ gConsec["ai_service"] = failure_threshold

----------------------------------------------------------------------------
(* SpecRetry: retry_with_backoff(max_attempts, base_delay) around an       *)
(* operation whose outcome at each invocation is arbitrary.                *)

OpErrors == {MsgTimeout, MsgAuth, MsgUnauthorized, MsgQuota, MsgRate, MsgMonthly}

CallEv(out) == [ev |-> "call", out |-> out, delay |-> 0]
SleepEv(d) == [ev |-> "sleep", out |-> NoError, delay |-> d]

InitRetry ==
    /\ rMax \in 0..MaxAttemptsBound
    /\ rBase \in BaseDelays
    /\ rAttempt = 0
    /\ rLast = NoError
    /\ rTrace = <<>>
    /\ rPc = IF rMax = 0 THEN "raise" ELSE "loop"
    /\ rOut = NoError
    /\ srProbe = ProbeNone
    /\ BreakersIdle
    /\ HarnessIdle
    /\ ServiceIdle
    /\ LimitsIdle
    /\ AuxIdle

\* func returns: the wrapper returns its result
RetryCallOk ==
    /\ rPc = "loop"
    /\ rTrace' = Append(rTrace, CallEv(<<"ok">>))
    /\ rPc' = "returned"
    /\ rOut' = <<"ok">>
    /\ UNCHANGED <<auxVars, rMax, rBase, rAttempt, rLast, srProbe, breakerVars, harnessVars, svcVars, limitVars>>

\* func raises e: the except-branch, then the next iteration or the end of the loop
RetryCallFail ==
    /\ rPc = "loop"
    /\ \E e \in OpErrors :
        LET d == RetryDecision(e, rAttempt, rMax, rBase)
            called == Append(rTrace, CallEv(e))
        IN  /\ rLast' = e
            /\ rTrace' = IF d.sleep THEN Append(called, SleepEv(d.delay)) ELSE called
            /\ rPc' = IF d.break \/ rAttempt + 1 >= rMax THEN "raise" ELSE "loop"
            /\ rAttempt' = IF d.break THEN rAttempt ELSE rAttempt + 1
    /\ UNCHANGED <<auxVars, rMax, rBase, rOut, srProbe, breakerVars, harnessVars, svcVars, limitVars>>

\* after the loop: raise last_exception (raise None is a TypeError)
RetryRaise ==
    /\ rPc = "raise"
    /\ rOut' = IF rLast = NoError THEN MsgNoneRaised ELSE rLast
    /\ rPc' = "raised"
    /\ UNCHANGED <<auxVars, rMax, rBase, rAttempt, rLast, rTrace, srProbe,
                   breakerVars, harnessVars, svcVars, limitVars>>

\* should_retry evaluated on arbitrary arguments
ShouldRetryProbe ==
    /\ rPc \in {"loop", "raise"}
    /\ rTrace = <<>>
    /\ \E e \in OpErrors, a \in 0..(MaxAttemptsBound + 1), m \in 0..MaxAttemptsBound :
        srProbe' = [exception |-> e, attempt |-> a, max_attempts |-> m,
                    result |-> should_retry(e, a, m)]
    /\ rPc' = "probed"
    /\ UNCHANGED <<auxVars, rMax, rBase, rAttempt, rLast, rTrace, rOut, breakerVars, harnessVars, svcVars, limitVars>>

NextRetry == RetryCallOk \/ RetryCallFail \/ RetryRaise \/ ShouldRetryProbe

SpecRetry == InitRetry /\ [][NextRetry]_vars

----------------------------------------------------------------------------
(* Observations on the wrapper's trace *)

RECURSIVE NumCalls(_)
NumCalls(tr) ==
    IF tr = <<>> THEN 0
    ELSE (IF tr[1].ev = "call" THEN 1 ELSE 0) + NumCalls(Tail(tr))

RECURSIVE NumFailed(_)
NumFailed(tr) ==
    IF tr = <<>> THEN 0
    ELSE (IF tr[1].ev = "call" /\ tr[1].out # <<"ok">> THEN 1 ELSE 0)
         + NumFailed(Tail(tr))

RECURSIVE TotalSlept(_)
TotalSlept(tr) ==
    IF tr = <<>> THEN 0 ELSE tr[1].delay + TotalSlept(Tail(tr))

\* the errors section 4.6 classifies as authentication/authorization or quota/rate-limit
AuthOrQuota == {MsgAuth, MsgUnauthorized, MsgQuota, MsgRate}

AllFailuresRetryable(tr) ==
    \A i \in DOMAIN tr : tr[i].ev = "call" => tr[i].out \notin AuthOrQuota

\* sum over n in 0..k-1 of min(base_delay * 2^n, 60)
RECURSIVE ExpectedBackoff(_, _)
ExpectedBackoff(k, base) ==
    IF k = 0 THEN 0
    ELSE ExpectedBackoff(k - 1, base)
         + (IF base * (2 ^ (k - 1)) <= 60 THEN base * (2 ^ (k - 1)) ELSE 60)

----------------------------------------------------------------------------
(* C8: an operation that fails k < max_attempts times with a retryable     *)
(* error and then succeeds: the wrapper keeps calling after each of the k  *)
(* failures, returns the success result, has invoked the operation k+1     *)
(* times and has slept the sum over n in 0..k-1 of min(base_delay*2^n,60); *)
(* with max_attempts=3, base_delay=1, k=2: 3 invocations, 1+2 seconds.     *)
C8_RetryThenSuccess ==
    LET k == NumFailed(rTrace) IN
    /\ (rPc # "probed" /\ AllFailuresRetryable(rTrace) /\ k < rMax
        /\ NumCalls(rTrace) = k)
          => (rPc = "loop" /\ TotalSlept(rTrace) = ExpectedBackoff(k, rBase))
    /\ rPc = "returned"
          => /\ rOut = <<"ok">>
             /\ NumCalls(rTrace) = k + 1
             /\ TotalSlept(rTrace) = ExpectedBackoff(k, rBase)
             /\ (rMax = 3 /\ rBase = 1 /\ k = 2)
                   => (NumCalls(rTrace) = 3 /\ TotalSlept(rTrace) = 1 + 2)

C8_Witness ==
    /\ rPc = "returned" /\ rMax = 3 /\ rBase = 1
    /\ NumFailed(rTrace) = 2 /\ NumCalls(rTrace) = 3 /\ TotalSlept(rTrace) = 3

\* a run in which the 60 s cap of the delay applies
C8_WitnessCapped ==
    /\ rPc = "returned" /\ rBase = 16 /\ NumFailed(rTrace) = 3
    /\ TotalSlept(rTrace) = 16 + 32 + 60

(* C9: when every attempt fails the operation is invoked at most           *)
(* max_attempts times, the wrapper raises the error of the last attempt    *)
(* made and never returns normally, and nothing is slept after the final   *)
(* attempt.                                                                *)
C9_ExhaustedRaisesLast ==
    /\ NumCalls(rTrace) <= rMax
    /\ (NumFailed(rTrace) = NumCalls(rTrace) /\ NumCalls(rTrace) = rMax
        /\ rPc # "probed")
          => rPc \in {"raise", "raised"}
    /\ (rPc \in {"raise", "raised"} /\ rTrace # <<>>)
          => /\ rTrace[Len(rTrace)].ev = "call"
             /\ rLast = rTrace[Len(rTrace)].out
             /\ NumFailed(rTrace) = NumCalls(rTrace)
    /\ (rPc = "raised" /\ rTrace # <<>>) => rOut = rTrace[Len(rTrace)].out

C9_Witness ==
    /\ rPc = "raised" /\ rMax = 3 /\ NumCalls(rTrace) = 3
    /\ rTrace[1].out = MsgTimeout /\ rTrace[Len(rTrace)].out = MsgMonthly
    /\ rOut = MsgMonthly

----------------------------------------------------------------------------
(* Spec: the generation services.  Each worker runs generate_quiz,         *)
(* generate_summary or generate_flashcards: cache lookup, then             *)
(* generate_content through circuit_breaker('ai_service') and              *)
(* retry_with_backoff(3, 1.0), then parsing, storing and caching, with the *)
(* except-branch that logs a failed usage.  The rate window (3600 s) and   *)
(* the cache TTLs are longer than the range of the clock, so no entry      *)
(* expires within a behaviour.                                             *)

\* the breaker that guards generate_content of a service kind:
\* @circuit_breaker('ai_service'), whatever the service
BreakerFor(k) == "ai_service"

MsgGenFailed == <<"AI", "generation", "failed:">>
MsgBadFormat == <<"Invalid", "JSON", "response", "from", "AI", "service">>
MsgNoLesson == <<"Lesson", "matching", "query", "does", "not", "exist.">>

ProviderErrors == {MsgTimeout, MsgAuth}      \* error_message of a failed AIResponse

\* mutant: the score is returned as it was counted down
validate_educational_content_unfloored(profane, short, noKeyword, noQuestionMark) ==
    LET score == 100 - (IF profane THEN 50 ELSE 0)
                     - (IF short THEN 30 ELSE 0)
                     - (IF noKeyword THEN 20 ELSE 0)
                     - (IF noQuestionMark THEN 10 ELSE 0)
    IN  [is_valid |-> score >= 70,
         score |-> score]

\* ContentValidator.validate_educational_content on what it tests of the text:
\* profanity, fewer than 10 characters, no educational keyword, the word
\* 'question' without a question mark
validate_educational_content(profane, short, noKeyword, noQuestionMark) ==
    LET score == 100 - (IF profane THEN 50 ELSE 0)
                     - (IF short THEN 30 ELSE 0)
                     - (IF noKeyword THEN 20 ELSE 0)
                     - (IF noQuestionMark THEN 10 ELSE 0)
    IN  [is_valid |-> score >= 70,
         score |-> IF score < 0 THEN 0 ELSE score]

\* validation scores a generated text can get
Scores ==
    {validate_educational_content(p, s, n, q).score : p, s, n, q \in BOOLEAN}

Ev(ev, out, n) == [ev |-> ev, out |-> out, n |-> n]

\* RateLimiter.check_rate_limit on the counter of one (user, service) key
check_rate_limit(current_count, limit) ==
    IF current_count >= limit
    THEN [allowed |-> FALSE, count |-> current_count]
    ELSE [allowed |-> TRUE, count |-> current_count + 1]

\* the monthly decision is made before the rate limiter is asked
check_usage_limit_monthly_first(current_count, current_usage, limit) ==
    IF current_usage >= limit
    THEN [allowed |-> FALSE, current_usage |-> current_usage,
          monthly_limit |-> limit, remaining |-> 0,
          reason |-> MsgMonthly, count |-> current_count]
    ELSE LET rl == check_rate_limit(current_count, rate_limit) IN
         IF ~rl.allowed
         THEN [allowed |-> FALSE, reason |-> MsgRate, retry_after |-> rate_window,
               count |-> rl.count]
         ELSE [allowed |-> TRUE, current_usage |-> current_usage,
               monthly_limit |-> limit, remaining |-> limit - current_usage,
               reason |-> NoError, count |-> rl.count]

\* AIUsageTracker.check_usage_limit: the decision, and the rate counter after it
check_usage_limit(current_count, current_usage, limit) ==
    LET rl == check_rate_limit(current_count, rate_limit)
        remaining == limit - current_usage
    IN  IF ~rl.allowed
        THEN [allowed |-> FALSE, reason |-> MsgRate, retry_after |-> rate_window,
              count |-> rl.count]
        ELSE [allowed |-> current_usage < limit,
              current_usage |-> current_usage,
              monthly_limit |-> limit,
              remaining |-> IF remaining < 0 THEN 0 ELSE remaining,
              reason |-> IF current_usage >= limit THEN MsgMonthly ELSE NoError,
              count |-> rl.count]

\* mutant: quizzes are cached from the threshold of the other kinds on
CacheThreshold_same(k) == other_cache_score

CacheThreshold(k) ==
    IF k = "quiz_generation" THEN quiz_cache_score ELSE other_cache_score

CacheTtl(k) ==
    IF k = "quiz_generation" THEN quiz_cache_ttl ELSE other_cache_ttl

\* hash(str(...)) in the cache key: str hashes are salted per interpreter, so
\* the key of one request is the same only within processes started together
HashSalt(w) == IF w \in Workers THEN 1 ELSE w

\* quiz_gen_..._{hash(str(question_types))}, summary_..._{hash(str(focus_areas))},
\* flashcards_{lesson_id}_{num_cards}_{difficulty}
CacheKey(w, k) ==
    [kind |-> k, salt |-> IF k = "flashcard_generation" THEN 0 ELSE HashSalt(w)]

\* cache.get(cache_key): the entries under the key that have not expired
result_cache_get(c, key, t) ==
    {e \in c : e.kind = key.kind /\ e.salt = key.salt /\ t < e.expires}

\* cache.set(cache_key, final_result, timeout) at time t
result_cache_set(c, key, score, timeout, t) ==
    {e \in c : ~(e.kind = key.kind /\ e.salt = key.salt)}
      \cup {[kind |-> key.kind, salt |-> key.salt, expires |-> t + timeout,
              score |-> score]}

RECURSIVE LastScore(_)
LastScore(tr) ==
    IF tr = <<>> THEN 0
    ELSE IF tr[Len(tr)].ev = "provider" THEN tr[Len(tr)].n
    ELSE LastScore(SubSeq(tr, 1, Len(tr) - 1))

\* ---- generated texts and their parsers.  A text is a sequence of tokens:
\* "{" and "}" as in the text, "junk" for what json.loads cannot read, "item"
\* opening an element of the list, the other tokens being keys (and "mc" the
\* value 'multiple_choice' of 'type').

Texts ==
    { <<"text">>,
      <<"{", "questions", "item", "question">>,
      <<"}", "text", "{">>,
      <<"{", "junk", "}">>,
      <<"{", "text", "}">>,
      <<"{", "questions", "item", "question", "type", "correct_answer",
                          "item", "question", "type", "}">>,
      <<"{", "questions", "item", "question", "type", "mc", "correct_answer", "}">>,
      <<"text", "{", "questions", "item", "question", "type", "mc",
                     "correct_answer", "options", "}", "text">>,
      <<"{", "flashcards", "item", "question", "}">>,
      <<"text", "{", "flashcards", "item", "question", "answer", "}">> }

MsgNoJson == <<"No", "valid", "JSON", "found", "in", "response">>
MsgNoQuestions == <<"Invalid", "quiz", "format:", "missing", "'questions'", "key">>
MsgNoFlashcards ==
    <<"Invalid", "flashcards", "format:", "missing", "'flashcards'", "key">>
MsgQuestionField(f) == <<"Question", "missing", "required", "field:", f>>
MsgNoOptions == <<"Multiple", "choice", "question", "missing", "options">>
MsgCardField(f) == <<"Flashcard", "missing", "required", "field:", f>>

\* str.find and str.rfind, 0 when the token does not occur
Find(s, tok) ==
    IF \E i \in DOMAIN s : s[i] = tok
    THEN CHOOSE i \in DOMAIN s : s[i] = tok /\ \A j \in 1..(i - 1) : s[j] # tok
    ELSE 0

RFind(s, tok) ==
    IF \E i \in DOMAIN s : s[i] = tok
    THEN CHOOSE i \in DOMAIN s : s[i] = tok /\ \A j \in (i + 1)..Len(s) : s[j] # tok
    ELSE 0

\* json.loads raises JSONDecodeError on the empty string and on junk
JsonLoads(js) == js # <<>> /\ \A i \in DOMAIN js : js[i] # "junk"

\* the elements of the list, by the position at which each begins
ItemStarts(js) == {i \in DOMAIN js : js[i] = "item"}

ItemFields(js, i) ==
    LET later == {j \in ItemStarts(js) : j > i}
        stop == IF later = {} THEN Len(js) + 1
                ELSE CHOOSE j \in later : \A k \in later : j <= k
    IN  {js[q] : q \in (i + 1)..(stop - 1)}

\* the first of the elements that fail the validation, 0 when none does
FirstBad(bad) ==
    IF bad = {} THEN 0 ELSE CHOOSE i \in bad : \A k \in bad : i <= k

\* the first field of `required` that the element lacks
FirstMissing(fields, required) ==
    required[CHOOSE n \in DOMAIN required :
                /\ required[n] \notin fields
                /\ \A m \in 1..(n - 1) : required[m] \in fields]

QuizRequired == <<"question", "type", "correct_answer">>
CardRequired == <<"question", "answer">>

\* mutant: a question that lacks a required field is accepted
QuizItemOk_lenient(fields) == TRUE

QuizItemOk(fields) ==
    /\ \A n \in DOMAIN QuizRequired : QuizRequired[n] \in fields
    /\ ("mc" \in fields => "options" \in fields)

CardItemOk(fields) == \A n \in DOMAIN CardRequired : CardRequired[n] \in fields

\* _parse_quiz_response: NoError when quiz_data is returned, else the message
\* of the ValueError raised
parse_quiz_response(response_content) ==
    LET start_idx == Find(response_content, "{")
        end_idx == RFind(response_content, "}")
        json_str == SubSeq(response_content, start_idx, end_idx)
        bad == FirstBad({i \in ItemStarts(json_str) :
                           ~QuizItemOk(ItemFields(json_str, i))})
    IN  IF start_idx = 0 \/ end_idx = 0 THEN MsgNoJson
        ELSE IF ~JsonLoads(json_str) THEN MsgBadFormat
        ELSE IF \A i \in DOMAIN json_str : json_str[i] # "questions"
             THEN MsgNoQuestions
        ELSE IF bad = 0 THEN NoError
        ELSE IF \E n \in DOMAIN QuizRequired :
                    QuizRequired[n] \notin ItemFields(json_str, bad)
             THEN MsgQuestionField(FirstMissing(ItemFields(json_str, bad), QuizRequired))
        ELSE MsgNoOptions

\* _parse_flashcards_response
parse_flashcards_response(response_content) ==
    LET start_idx == Find(response_content, "{")
        end_idx == RFind(response_content, "}")
        json_str == SubSeq(response_content, start_idx, end_idx)
        bad == FirstBad({i \in ItemStarts(json_str) :
                           ~CardItemOk(ItemFields(json_str, i))})
    IN  IF start_idx = 0 \/ end_idx = 0 THEN MsgNoJson
        ELSE IF ~JsonLoads(json_str) THEN MsgBadFormat
        ELSE IF \A i \in DOMAIN json_str : json_str[i] # "flashcards"
             THEN MsgNoFlashcards
        ELSE IF bad = 0 THEN NoError
        ELSE MsgCardField(FirstMissing(ItemFields(json_str, bad), CardRequired))

\* what the service does with result['content'] before it stores it
ParseFor(k, text) ==
    IF k = "quiz_generation" THEN parse_quiz_response(text)
    ELSE IF k = "flashcard_generation" THEN parse_flashcards_response(text)
    ELSE NoError

RECURSIVE LastText(_)
LastText(tr) ==
    IF tr = <<>> THEN <<>>
    ELSE IF tr[Len(tr)].ev = "provider" THEN tr[Len(tr)].out
    ELSE LastText(SubSeq(tr, 1, Len(tr) - 1))

Init ==
    /\ RetryIdle
    /\ BreakersIdle
    /\ HarnessIdle
    /\ LimitsIdle
    /\ AuxIdle
    /\ rate = [u \in Users |->
                 [k \in Kinds |-> cache_set(rate_limit - RateHeadroom, rate_window, 0)]]
    /\ usage = [u \in Users |-> 0]
    /\ monthly_limit \in [Users -> 1..MaxMonthlyLimit]
    /\ cached = {}
    /\ wPc = [w \in Workers |-> "idle"]
    /\ wUser = [w \in Workers |-> "u1"]
    /\ wKind = [w \in Workers |-> "quiz_generation"]
    /\ wAttempt = [w \in Workers |-> 0]
    /\ wErr = [w \in Workers |-> NoError]
    /\ wTrace = [w \in Workers |-> <<>>]

\* mutant: the usage check is made before the cache is looked up
GenStart_checked(w, u, k) ==
    /\ wPc[w] = "idle"
    /\ wUser' = [wUser EXCEPT ![w] = u]
    /\ wKind' = [wKind EXCEPT ![w] = k]
    /\ wAttempt' = [wAttempt EXCEPT ![w] = 0]
    /\ \E found \in BOOLEAN :
         IF ~found
         THEN /\ wPc' = [wPc EXCEPT ![w] = "except"]
              /\ wErr' = [wErr EXCEPT ![w] = MsgNoLesson]
              /\ wTrace' = [wTrace EXCEPT ![w] = <<>>]
              /\ rate' = rate
         ELSE IF result_cache_get(cached, CacheKey(w, k), now) # {}
         THEN /\ wPc' = [wPc EXCEPT ![w] = "returned"]
              /\ wErr' = [wErr EXCEPT ![w] = NoError]
              /\ rate' = [rate EXCEPT ![u][k] =
                    cache_set(check_rate_limit(cache_get(@, now), rate_limit).count,
                              rate_window, now)]
              /\ \E e \in result_cache_get(cached, CacheKey(w, k), now) :
                    wTrace' = [wTrace EXCEPT ![w] =
                                  <<Ev("cache_hit", NoError, e.score)>>]
         ELSE /\ wPc' = [wPc EXCEPT ![w] = "breaker"]
              /\ wErr' = [wErr EXCEPT ![w] = NoError]
              /\ wTrace' = [wTrace EXCEPT ![w] = <<>>]
              /\ rate' = rate
    /\ UNCHANGED <<auxVars, usage, monthly_limit, cached,
                   retryVars, breakerVars, harnessVars, limitVars>>

\* generate_quiz / generate_summary / generate_flashcards up to generate_content:
\* the lesson is fetched and the cache is looked up
GenStart(w, u, k) ==
    /\ wPc[w] = "idle"
    /\ wUser' = [wUser EXCEPT ![w] = u]
    /\ wKind' = [wKind EXCEPT ![w] = k]
    /\ wAttempt' = [wAttempt EXCEPT ![w] = 0]
    /\ \E found \in BOOLEAN :
         IF ~found
         THEN /\ wPc' = [wPc EXCEPT ![w] = "except"]
              /\ wErr' = [wErr EXCEPT ![w] = MsgNoLesson]
              /\ wTrace' = [wTrace EXCEPT ![w] = <<>>]
         ELSE IF result_cache_get(cached, CacheKey(w, k), now) # {}
         THEN /\ wPc' = [wPc EXCEPT ![w] = "returned"]
              /\ wErr' = [wErr EXCEPT ![w] = NoError]
              /\ \E e \in result_cache_get(cached, CacheKey(w, k), now) :
                    wTrace' = [wTrace EXCEPT ![w] =
                                  <<Ev("cache_hit", NoError, e.score)>>]
         ELSE /\ wPc' = [wPc EXCEPT ![w] = "breaker"]
              /\ wErr' = [wErr EXCEPT ![w] = NoError]
              /\ wTrace' = [wTrace EXCEPT ![w] = <<>>]
    /\ UNCHANGED <<auxVars, rate, usage, monthly_limit, cached,
                   retryVars, breakerVars, harnessVars, limitVars>>

\* _circuit_breakers is a module global, so every worker process has a
\* registry of its own: the breaker that guards the calls of worker w
BreakerOf(w) ==
    IF w \in Workers THEN BreakerFor(wKind[w]) ELSE "ai_service (2nd process)"

\* circuit_breaker('ai_service').wrapper: the breaker is looked up and entered
BreakerEnter(w) ==
    /\ wPc[w] = "breaker"
    /\ LET BreakerName == BreakerOf(w)
           brs == get_circuit_breaker(breakers, BreakerName)
           r == before_call(brs[BreakerName], now)
       IN  /\ LockFree(brs[BreakerName])
           /\ IF r.pass
              THEN /\ breakers' = [brs EXCEPT ![BreakerName] = [r.b EXCEPT !.lock = w]]
                   /\ wPc' = [wPc EXCEPT ![w] = "attempt"]
                   /\ wErr' = wErr
              ELSE /\ breakers' = [brs EXCEPT ![BreakerName] = r.b]
                   /\ wPc' = [wPc EXCEPT ![w] = "except"]
                   /\ wErr' = [wErr EXCEPT ![w] = r.err]
    /\ UNCHANGED <<auxVars, now, rate, usage, monthly_limit, cached, wUser, wKind,
                   wAttempt, wTrace, retryVars, harnessVars, limitVars>>

\* mutant: the loop runs once more than max_attempts
LastAttempt_one_more(attempt, max_attempts) == attempt >= max_attempts

\* `for attempt in range(max_attempts)`: this iteration is the last of the loop
LastAttempt(attempt, max_attempts) == attempt + 1 >= max_attempts

\* mutant: the breaker does not count the call that failed
BodyRaises_uncounted(w, e, evs) ==
    LET d == RetryDecision(e, wAttempt[w], retry_max_attempts, retry_base_delay)
        final == d.break \/ LastAttempt(wAttempt[w], retry_max_attempts)
        BreakerName == BreakerOf(w)
    IN  /\ wTrace' = [wTrace EXCEPT ![w] =
              @ \o evs \o (IF d.sleep THEN <<Ev("sleep", NoError, d.delay)>> ELSE <<>>)]
        /\ IF final
           THEN /\ breakers' = [breakers EXCEPT ![BreakerName].lock = NoCaller]
                /\ wPc' = [wPc EXCEPT ![w] = "except"]
                /\ wErr' = [wErr EXCEPT ![w] = e]
                /\ wAttempt' = wAttempt
           ELSE /\ wAttempt' = [wAttempt EXCEPT ![w] = @ + 1]
                /\ wPc' = [wPc EXCEPT ![w] = "attempt"]
                /\ UNCHANGED <<breakers, wErr>>
        /\ usage' = usage

\* the body of generate_content raised e: retry_with_backoff's except-branch,
\* and when the loop ends the breaker counts the failure
BodyRaises(w, e, evs) ==
    LET d == RetryDecision(e, wAttempt[w], retry_max_attempts, retry_base_delay)
        final == d.break \/ LastAttempt(wAttempt[w], retry_max_attempts)
        BreakerName == BreakerOf(w)
        r == handle_error(breakers[BreakerName], now, e)
    IN  /\ wTrace' = [wTrace EXCEPT ![w] =
              @ \o evs \o (IF d.sleep THEN <<Ev("sleep", NoError, d.delay)>> ELSE <<>>)]
        /\ IF final
           THEN /\ breakers' = [breakers EXCEPT
                                  ![BreakerName] = [r.b EXCEPT !.lock = NoCaller]]
                /\ wPc' = [wPc EXCEPT ![w] = "except"]
                /\ wErr' = [wErr EXCEPT ![w] = r.err]
                /\ wAttempt' = wAttempt
           ELSE /\ wAttempt' = [wAttempt EXCEPT ![w] = @ + 1]
                /\ wPc' = [wPc EXCEPT ![w] = "attempt"]
                /\ UNCHANGED <<breakers, wErr>>
        /\ usage' = usage

\* the body of generate_content returned: the provider answered with text,
\* which was validated with score sc, and the successful usage was logged;
\* the wrappers return
BodyReturns(w, sc, text) ==
    /\ wTrace' = [wTrace EXCEPT ![w] =
          @ \o <<Ev("provider", text, sc), Ev("log_success", NoError, 1)>>]
    /\ usage' = [usage EXCEPT ![wUser[w]] = @ + 1]
    /\ breakers' = [breakers EXCEPT ![BreakerOf(w)] =
                      [handle_success(@) EXCEPT !.lock = NoCaller]]
    /\ wPc' = [wPc EXCEPT ![w] = "post"]
    /\ UNCHANGED <<wErr, wAttempt>>

\* one run of the body of generate_content inside the retry loop, up to the
\* provider call: the usage check
GenerateCheck(w) ==
    /\ wPc[w] = "attempt"
    /\ LET u == wUser[w]
           k == wKind[w]
           current_count == cache_get(rate[u][k], now)
           chk == check_usage_limit(current_count, usage[u], monthly_limit[u])
       IN  /\ rate' = IF chk.count # current_count
                      THEN [rate EXCEPT ![u][k] = cache_set(chk.count, rate_window, now)]
                      ELSE rate
           /\ IF ~chk.allowed
              THEN BodyRaises(w, chk.reason, <<Ev("check", chk.reason, 0)>>)
              ELSE /\ wPc' = [wPc EXCEPT ![w] = "provider"]
                   /\ wTrace' = [wTrace EXCEPT ![w] = Append(@, Ev("check", NoError, 0))]
                   /\ UNCHANGED <<usage, breakers, wErr, wAttempt>>
    /\ UNCHANGED <<auxVars, now, monthly_limit, cached, wUser, wKind, retryVars, harnessVars,
                   limitVars>>

\* the rest of the body when provider.generate_text answers with text, which
\* validates with score sc: the usage is logged and the result returned
ProviderReturns(w, sc, text) ==
    /\ wPc[w] = "provider"
    /\ BodyReturns(w, sc, text)
    /\ UNCHANGED <<auxVars, now, rate, monthly_limit, cached, wUser, wKind, retryVars,
                   harnessVars, limitVars>>

\* mutant: every failed attempt writes a failed usage record
ProviderFails_logged(w, m) ==
    /\ wPc[w] = "provider"
    /\ BodyRaises(w, MsgGenFailed \o m,
                  <<Ev("provider", m, 0), Ev("log_failed", MsgGenFailed \o m, 0)>>)
    /\ UNCHANGED <<auxVars, now, rate, monthly_limit, cached, wUser, wKind, retryVars,
                   harnessVars, limitVars>>

\* the rest of the body when the provider's response has success=False and
\* error_message m: the failure is raised
ProviderFails(w, m) ==
    /\ wPc[w] = "provider"
    /\ BodyRaises(w, MsgGenFailed \o m, <<Ev("provider", m, 0)>>)
    /\ UNCHANGED <<auxVars, now, rate, monthly_limit, cached, wUser, wKind, retryVars,
                   harnessVars, limitVars>>

\* mutant: the response is parsed inside the function the breaker wraps
PostSuccess_counted(w) ==
    /\ wPc[w] = "post"
    /\ LET k == wKind[w]
           err == ParseFor(k, LastText(wTrace[w]))
           score == LastScore(wTrace[w])
       IN  IF err # NoError
           THEN /\ wPc' = [wPc EXCEPT ![w] = "except"]
                /\ wErr' = [wErr EXCEPT ![w] = err]
                /\ breakers' = [breakers EXCEPT ![BreakerOf(w)] =
                                  handle_error(@, now, err).b]
                /\ UNCHANGED <<cached, wTrace>>
           ELSE /\ wPc' = [wPc EXCEPT ![w] = "returned"]
                /\ cached' = IF score >= CacheThreshold(k)
                             THEN result_cache_set(cached, CacheKey(w, k), score,
                                                   CacheTtl(k), now)
                             ELSE cached
                /\ wTrace' = [wTrace EXCEPT ![w] =
                      @ \o <<Ev("store", NoError, score)>>
                        \o (IF score >= CacheThreshold(k)
                            THEN <<Ev("cache_set", NoError, score)>> ELSE <<>>)
                        \o <<Ev("return", NoError, score)>>]
                /\ UNCHANGED <<wErr, breakers>>
    /\ UNCHANGED <<auxVars, rate, usage, monthly_limit, wUser, wKind, wAttempt,
                   retryVars, now, harnessVars, limitVars>>

\* after generate_content: the response is parsed (quiz, flashcards), the
\* GeneratedContent row stored and the result cached when the score allows
PostSuccess(w) ==
    /\ wPc[w] = "post"
    /\ LET k == wKind[w]
           err == ParseFor(k, LastText(wTrace[w]))
           score == LastScore(wTrace[w])
       IN  IF err # NoError
           THEN /\ wPc' = [wPc EXCEPT ![w] = "except"]
                /\ wErr' = [wErr EXCEPT ![w] = err]
                /\ UNCHANGED <<cached, wTrace>>
           ELSE /\ wPc' = [wPc EXCEPT ![w] = "returned"]
                /\ cached' = IF score >= CacheThreshold(k)
                             THEN result_cache_set(cached, CacheKey(w, k), score,
                                                   CacheTtl(k), now)
                             ELSE cached
                /\ wTrace' = [wTrace EXCEPT ![w] =
                      @ \o <<Ev("store", NoError, score)>>
                        \o (IF score >= CacheThreshold(k)
                            THEN <<Ev("cache_set", NoError, score)>> ELSE <<>>)
                        \o <<Ev("return", NoError, score)>>]
                /\ wErr' = wErr
    /\ UNCHANGED <<auxVars, rate, usage, monthly_limit, wUser, wKind, wAttempt,
                   retryVars, breakerVars, harnessVars, limitVars>>

\* mutant: the exception is raised again without a usage record
ExceptLog_unlogged(w) ==
    /\ wPc[w] = "except"
    /\ wPc' = [wPc EXCEPT ![w] = "raised"]
    /\ UNCHANGED <<auxVars, rate, usage, monthly_limit, cached, wUser, wKind, wAttempt, wErr,
                   wTrace, retryVars, breakerVars, harnessVars, limitVars>>

\* the except-branch of generate_quiz / generate_summary / generate_flashcards:
\* a failed usage is logged and the exception raised again
ExceptLog(w) ==
    /\ wPc[w] = "except"
    /\ wTrace' = [wTrace EXCEPT ![w] = Append(@, Ev("log_failed", wErr[w], 0))]
    /\ wPc' = [wPc EXCEPT ![w] = "raised"]
    /\ UNCHANGED <<auxVars, rate, usage, monthly_limit, cached, wUser, wKind, wAttempt, wErr,
                   retryVars, breakerVars, harnessVars, limitVars>>

\* the call is over: the worker is free for the next request
Finish(w) ==
    /\ wPc[w] \in {"returned", "raised"}
    /\ wPc' = [wPc EXCEPT ![w] = "idle"]
    /\ wUser' = [wUser EXCEPT ![w] = "u1"]
    /\ wKind' = [wKind EXCEPT ![w] = "quiz_generation"]
    /\ wAttempt' = [wAttempt EXCEPT ![w] = 0]
    /\ wErr' = [wErr EXCEPT ![w] = NoError]
    /\ wTrace' = [wTrace EXCEPT ![w] = <<>>]
    /\ UNCHANGED <<auxVars, rate, usage, monthly_limit, cached,
                   retryVars, breakerVars, harnessVars, limitVars>>

Next ==
    \/ \E w \in Workers, u \in Users, k \in Kinds : GenStart(w, u, k)
    \/ \E w \in Workers : BreakerEnter(w)
    \/ \E w \in Workers : GenerateCheck(w)
    \/ \E w \in Workers, sc \in Scores, text \in Texts : ProviderReturns(w, sc, text)
    \/ \E w \in Workers, m \in ProviderErrors : ProviderFails(w, m)
    \/ \E w \in Workers : PostSuccess(w)
    \/ \E w \in Workers : ExceptLog(w)
    \/ \E w \in Workers : Finish(w)

Spec == Init /\ [][Next]_vars

----------------------------------------------------------------------------
(* SpecHours: the generation services over hours: the same calls, and a    *)
(* clock that moves in steps of HourStep, so that rate-limit windows and   *)
(* cached results expire and an open breaker times out.                    *)

HourKinds == {"quiz_generation", "lesson_summary"}

\* the texts, scores and provider errors tried over hours and by two processes
HourTexts ==
    {t \in Texts : parse_quiz_response(t) = NoError \/ t = <<"text">>}
HourScores ==
    {sc \in Scores : sc >= other_cache_score - 10 /\ sc <= quiz_cache_score}
HourErrors == {MsgAuth}

\* time passes while no call is in progress; the cache drops what has expired
HourTick ==
    /\ \A w \in DOMAIN wPc : wPc[w] = "idle"
    /\ now + HourStep <= MaxHours * HourStep
    /\ now' = now + HourStep
    /\ cached' = {e \in cached : now' < e.expires}
    /\ rate' = [u \in Users |-> [k \in Kinds |->
                  IF cache_get(rate[u][k], now') = 0 THEN NoEntry ELSE rate[u][k]]]
    /\ UNCHANGED <<auxVars, breakers, usage, monthly_limit, wPc, wUser, wKind, wAttempt,
                   wErr, wTrace, harnessVars, retryVars, limitVars>>

NextHours ==
    \/ \E w \in Workers, u \in Users, k \in HourKinds : GenStart(w, u, k)
    \/ \E w \in Workers : BreakerEnter(w)
    \/ \E w \in Workers : GenerateCheck(w)
    \/ \E w \in Workers, sc \in HourScores, text \in HourTexts :
          ProviderReturns(w, sc, text)
    \/ \E w \in Workers, m \in HourErrors : ProviderFails(w, m)
    \/ \E w \in Workers : PostSuccess(w)
    \/ \E w \in Workers : ExceptLog(w)
    \/ \E w \in Workers : Finish(w)
    \/ HourTick

SpecHours == Init /\ [][NextHours]_vars

----------------------------------------------------------------------------
(* Claims on the generation services (Spec) *)

Rejected(tr) == \E i \in DOMAIN tr : tr[i].ev = "check" /\ tr[i].out # NoError

ProviderCalls(tr) == Cardinality({i \in DOMAIN tr : tr[i].ev = "provider"})

\* state and failure counter of the breaker that guards service kind k
Guard(k) ==
    LET brs == get_circuit_breaker(breakers, BreakerFor(k))
    IN  <<brs[BreakerFor(k)].state, brs[BreakerFor(k)].fail_counter>>

(* C1: in a generate call in which check_usage_limit returns allowed=false *)
(* the provider is invoked zero times, the call raises, and no usage       *)
(* record with tokens or cost is written.                                  *)
C1_RejectedCallNoProvider ==
    \A w \in Workers :
        Rejected(wTrace[w])
           => /\ ProviderCalls(wTrace[w]) = 0
              /\ \A i \in DOMAIN wTrace[w] : wTrace[w][i].ev # "log_success"
              /\ wPc[w] \notin {"post", "returned"}

(* C6: a failed generation call of one service kind changes neither the    *)
(* state nor the failure counter of the breaker that guards generation     *)
(* calls of another service kind.                                          *)
C6_BreakersIndependent ==
    [][\A w \in Workers :
          (wPc[w] \in {"attempt", "provider"} /\ wPc'[w] = "except")
             => \A k \in Kinds \ {wKind[w]} : Guard(k)' = Guard(k)]_vars

(* C7: a generate call rejected by the usage check, for the monthly limit  *)
(* or for the hourly rate, is not retried: after the rejection the body of *)
(* generate_content does not run again and nothing is slept.               *)
C7_RejectionNotRetried ==
    \A w \in Workers :
        \A i \in DOMAIN wTrace[w] :
            (wTrace[w][i].ev = "check" /\ wTrace[w][i].out \in {MsgMonthly, MsgRate})
               => \A j \in (i + 1)..Len(wTrace[w]) : wTrace[w][j].ev = "log_failed"

----------------------------------------------------------------------------
(* SpecRate: RateLimiter.check_rate_limit(user, service, limit, window) on *)
(* one (user, service) key by several callers, and the clock.  cache.get   *)
(* and cache.set are two operations on the shared cache; another caller    *)
(* or the clock can step between them.                                     *)

Windows == {2 * TickStep, 3 * TickStep}

HistEv(t, ok, before, after) == [t |-> t, ok |-> ok, before |-> before, after |-> after]

InitRate ==
    /\ RetryIdle
    /\ BreakersIdle
    /\ HarnessIdle
    /\ ServiceIdle
    /\ lStore = NoEntry
    /\ lLimit \in 1..MaxRateLimit
    /\ lWindow \in Windows
    /\ lPc = [c \in Callers |-> "idle"]
    /\ lRead = [c \in Callers |-> [count |-> 0, at |-> 0]]
    /\ lHist = <<>>
    /\ lOverlap = FALSE
    /\ uLogs = <<>>
    /\ uRoleLimit = NoRow
    /\ uSetting = NoRow
    /\ uProbe = UsageProbeNone
    /\ AuxIdle

InFlight == Cardinality({c \in Callers : lPc[c] = "set"})

\* check_rate_limit up to its return False or to cache.set
RateGet(c) ==
    /\ lPc[c] = "idle"
    /\ Len(lHist) + InFlight < MaxChecks
    /\ LET current_count == cache_get(lStore, now)
           r == check_rate_limit(current_count, lLimit)
       IN  /\ lRead' = [lRead EXCEPT ![c] = [count |-> current_count, at |-> now]]
           /\ IF r.allowed
              THEN /\ lPc' = [lPc EXCEPT ![c] = "set"]
                   /\ lHist' = lHist
              ELSE /\ lPc' = lPc
                   /\ lHist' = Append(lHist, HistEv(now, FALSE, current_count,
                                                    current_count))
    /\ lOverlap' = (lOverlap \/ \E d \in Callers \ {c} : lPc[d] = "set")
    /\ UNCHANGED <<auxVars, lStore, lLimit, lWindow, uLogs, uRoleLimit, uSetting, uProbe,
                   retryVars, breakerVars, harnessVars, svcVars>>

\* cache.set(key, current_count + 1, window) and return True
RateSet(c) ==
    /\ lPc[c] = "set"
    /\ LET r == check_rate_limit(lRead[c].count, lLimit)
       IN  /\ lStore' = cache_set(r.count, lWindow, now)
           /\ lHist' = Append(lHist, HistEv(lRead[c].at, TRUE,
                                            cache_get(lStore, now), r.count))
    /\ lPc' = [lPc EXCEPT ![c] = "idle"]
    /\ UNCHANGED <<auxVars, lLimit, lWindow, lRead, lOverlap, uLogs, uRoleLimit, uSetting,
                   uProbe, retryVars, breakerVars, harnessVars, svcVars>>

\* the clock; a call of check_rate_limit takes less than one step of it
RateTick ==
    /\ InFlight = 0
    /\ now + TickStep <= MaxTime
    /\ now' = now + TickStep
    /\ UNCHANGED <<auxVars, breakers, harnessVars, retryVars, svcVars, limitVars>>

NextRate ==
    \/ \E c \in Callers : RateGet(c)
    \/ \E c \in Callers : RateSet(c)
    \/ RateTick

SpecRate == InitRate /\ [][NextRate]_vars

----------------------------------------------------------------------------
(* Claims on the rate limiter (SpecRate) *)

\* the window that begins with the first call on the empty counter
FirstWindowEnd == lHist[1].t + lWindow

(* C11: for sequential calls on one key from an empty counter, the first   *)
(* `limit` calls in one window return true, the (limit+1)-th call in that  *)
(* window returns false, and the first call after the window has elapsed   *)
(* returns true again.                                                     *)
C11_WindowedLimit ==
    (~lOverlap /\ lHist # <<>>) =>
        \A i \in DOMAIN lHist :
            /\ (i <= lLimit /\ lHist[i].t < FirstWindowEnd) => lHist[i].ok
            /\ (i = lLimit + 1 /\ lHist[i].t < FirstWindowEnd) => ~lHist[i].ok
            /\ (/\ lHist[i].t >= FirstWindowEnd
                /\ \A j \in 1..(i - 1) : lHist[j].t < FirstWindowEnd) => lHist[i].ok

\* calls granted in the window that begins with call i
GrantedInWindow(i) ==
    Cardinality({j \in DOMAIN lHist :
                   /\ lHist[j].ok
                   /\ lHist[j].t >= lHist[i].t
                   /\ lHist[j].t < lHist[i].t + lWindow})

(* C12: under any interleaving of concurrent check_rate_limit calls on one *)
(* key at most `limit` calls return true within one window, and every call *)
(* that returns true raises the stored count by exactly one.               *)
C12_AtomicLimit ==
    \A i \in DOMAIN lHist :
        /\ GrantedInWindow(i) <= lLimit
        /\ lHist[i].ok => lHist[i].after = lHist[i].before + 1

----------------------------------------------------------------------------
(* SpecUsage: AIUsageTracker.check_usage_limit(user, service) on the       *)
(* AIUsageLimit and AIUsageLog tables and the rate-limit entry of the key. *)
(* The clock starts at the first instant of a month.                       *)

UsageUsers == {"u1", "u2"}

\* timezone.now().replace(day=1, hour=0, minute=0, second=0, microsecond=0),
\* in a calendar of months of 31 days
current_month(t) == t - (t % (31 * 86400))

\* the role's AIUsageLimit row, else the role's entry in settings, else 50
MonthlyLimitOf(roleLimit, setting) ==
    IF roleLimit # NoRow THEN roleLimit
    ELSE IF setting # NoRow THEN setting
    ELSE default_monthly_limit

\* every row of the user in the month is counted, failed ones too
CurrentUsage_counts_failed(logs, user, t) ==
    BagCardinality([r \in {x \in BagToSet(logs) :
                              /\ x.user = user
                              /\ x.created_at >= current_month(t)}
                      |-> logs[r]])

\* AIUsageLog.objects.filter(user=user, created_at__gte=current_month,
\*                           success=True).count()
CurrentUsage(logs, user, t) ==
    BagCardinality([r \in {x \in BagToSet(logs) :
                              /\ x.user = user
                              /\ x.created_at >= current_month(t)
                              /\ x.success}
                      |-> logs[r]])

InitUsage ==
    /\ RetryIdle
    /\ BreakersIdle
    /\ HarnessIdle
    /\ ServiceIdle
    /\ lStore \in {NoEntry, cache_set(rate_limit - 1, rate_window, 0),
                    cache_set(rate_limit, rate_window, 0)}
    /\ lLimit = rate_limit
    /\ lWindow = rate_window
    /\ lPc = [c \in Callers |-> "idle"]
    /\ lRead = [c \in Callers |-> [count |-> 0, at |-> 0]]
    /\ lHist = <<>>
    /\ lOverlap = FALSE
    /\ uLogs = EmptyBag
    /\ uRoleLimit \in {NoRow} \cup 0..MaxMonthlyLimit
    /\ uSetting \in {NoRow, MaxMonthlyLimit}
    /\ uProbe = UsageProbeNone
    /\ AuxIdle

\* the rows of AIUsageLog, written before the clock moves: in the month
\* before, or at the first instant of this month
UsageRow(u, success, at) ==
    /\ ~uProbe.made
    /\ now = 0
    /\ BagCardinality(uLogs) < MaxLogs
    /\ uLogs' = uLogs (+) SetToBag({[user |-> u, success |-> success,
                                     created_at |-> at]})
    /\ UNCHANGED <<auxVars, lStore, lLimit, lWindow, lPc, lRead, lHist, lOverlap,
                   uRoleLimit, uSetting, uProbe,
                   retryVars, breakerVars, harnessVars, svcVars>>

\* check_usage_limit(u, service)
UsageCheck(u) ==
    /\ LET before == cache_get(lStore, now)
           d == check_usage_limit(before, CurrentUsage(uLogs, u, now),
                                  MonthlyLimitOf(uRoleLimit, uSetting))
       IN  /\ uProbe' = [made |-> TRUE, user |-> u, at |-> now,
                         rate_before |-> before, decision |-> d]
           /\ uProbe' # uProbe
           /\ lStore' = IF d.count # before
                        THEN cache_set(d.count, rate_window, now) ELSE lStore
    /\ UNCHANGED <<auxVars, lLimit, lWindow, lPc, lRead, lHist, lOverlap,
                   uLogs, uRoleLimit, uSetting,
                   retryVars, breakerVars, harnessVars, svcVars>>

NextUsage ==
    \/ \E u \in UsageUsers, success \in BOOLEAN :
          \E at \in {current_month(now) - 1, current_month(now)} :
             UsageRow(u, success, at)
    \/ UsageCheck("u1")
    \/ RateTick

SpecUsage == InitUsage /\ [][NextUsage]_vars

----------------------------------------------------------------------------
(* Claims on the usage check (SpecUsage) *)

\* the user's successful rows since the first instant of the month of t
SuccessesInMonth(u, t) ==
    LET rows == {x \in BagToSet(uLogs) : x.user = u /\ x.success
                                          /\ x.created_at >= current_month(t)}
    IN  BagCardinality([r \in rows |-> CopiesIn(r, uLogs)])

\* the role's configured limit, the static default when none is configured
ConfiguredLimit ==
    IF uRoleLimit # NoRow THEN uRoleLimit
    ELSE IF uSetting # NoRow THEN uSetting ELSE default_monthly_limit

(* C13: the rate limit is checked before the monthly count: when the       *)
(* hourly rate is exhausted the decision is allowed=false with the         *)
(* rate-limit reason and retry_after=3600, also when the monthly quota is  *)
(* exhausted too; it is never 'Monthly limit exceeded'.                    *)
C13_RateLimitFirst ==
    (uProbe.made /\ uProbe.rate_before >= rate_limit) =>
        /\ uProbe.decision.allowed = FALSE
        /\ uProbe.decision.reason = MsgRate
        /\ uProbe.decision.reason # MsgMonthly
        /\ uProbe.decision.retry_after = rate_window

C13_Witness ==
    /\ uProbe.made
    /\ uProbe.rate_before >= rate_limit
    /\ SuccessesInMonth(uProbe.user, uProbe.at) >= ConfiguredLimit
    /\ uProbe.decision.reason = MsgRate

(* C14: when the rate-limit check passes, allowed = (count < limit) and    *)
(* remaining = max(0, limit - count), count being the user's success=true  *)
(* rows created since the first instant of the current month and limit the *)
(* role's configured limit (the static default when none is configured);   *)
(* failed rows do not change count.                                        *)
C14_MonthlyDecision ==
    (uProbe.made /\ uProbe.rate_before < rate_limit) =>
        LET count == SuccessesInMonth(uProbe.user, uProbe.at)
            limit == ConfiguredLimit
        IN  /\ uProbe.decision.allowed = (count < limit)
            /\ uProbe.decision.remaining
                  = (IF limit - count > 0 THEN limit - count ELSE 0)
            /\ uProbe.decision.current_usage = count
            /\ uProbe.decision.monthly_limit = limit

C14_Witness ==
    /\ uProbe.made
    /\ uProbe.rate_before < rate_limit
    /\ uProbe.decision.allowed = FALSE
    /\ uProbe.decision.remaining = 0
    /\ \E x \in BagToSet(uLogs) : x.user = uProbe.user /\ ~x.success
                                    /\ x.created_at >= current_month(uProbe.at)
    /\ \E x \in BagToSet(uLogs) : x.user = uProbe.user /\ x.success
                                    /\ x.created_at < current_month(uProbe.at)
    /\ \E x \in BagToSet(uLogs) : x.user # uProbe.user /\ x.success

----------------------------------------------------------------------------
(* SpecProcs: the generation services called by two worker processes (web  *)
(* or celery workers) on behalf of one user.  The processes share the      *)
(* database and the cache; each has its own _circuit_breakers, whose lock  *)
(* serialises the calls of one process only.                               *)

Procs == {1, 2}
ProcKinds == {"quiz_generation"}

InitProcs ==
    /\ RetryIdle
    /\ BreakersIdle
    /\ HarnessIdle
    /\ LimitsIdle
    /\ AuxIdle
    /\ rate = [u \in Users |->
                 [k \in Kinds |-> cache_set(rate_limit - RateHeadroom, rate_window, 0)]]
    /\ usage = [u \in Users |-> 0]
    /\ monthly_limit \in [Users -> 1..MaxMonthlyLimit]
    /\ cached = {}
    /\ wPc = [w \in Procs |-> "idle"]
    /\ wUser = [w \in Procs |-> "u1"]
    /\ wKind = [w \in Procs |-> "quiz_generation"]
    /\ wAttempt = [w \in Procs |-> 0]
    /\ wErr = [w \in Procs |-> NoError]
    /\ wTrace = [w \in Procs |-> <<>>]

NextProcs ==
    \/ \E w \in Procs, u \in Users, k \in ProcKinds : GenStart(w, u, k)
    \/ \E w \in Procs : BreakerEnter(w)
    \/ \E w \in Procs : GenerateCheck(w)
    \/ \E w \in Procs, sc \in HourScores, text \in HourTexts :
          ProviderReturns(w, sc, text)
    \/ \E w \in Procs, m \in HourErrors : ProviderFails(w, m)
    \/ \E w \in Procs : PostSuccess(w)
    \/ \E w \in Procs : ExceptLog(w)
    \/ \E w \in Procs : Finish(w)

SpecProcs == InitProcs /\ [][NextProcs]_vars

----------------------------------------------------------------------------
(* Claims on concurrent generate calls (SpecProcs) *)

(* C15: after any interleaving of concurrent generate calls by one user in *)
(* one month the user's success=true usage records of the month never      *)
(* exceed the user's monthly limit.                                        *)
C15_MonthlyCapHolds ==
    \A u \in Users : usage[u] <= monthly_limit[u]

----------------------------------------------------------------------------
(* Claims on usage records, parsing and the result cache *)

CountEv(tr, ev) == Cardinality({i \in DOMAIN tr : tr[i].ev = ev})

FailedAttempts(tr) ==
    Cardinality({i \in DOMAIN tr : tr[i].ev = "provider" /\ tr[i].n = 0
                                    /\ tr[i].out \in ProviderErrors})

C17_OneSuccessRecord ==
    \A w \in Workers :
        (wPc[w] = "returned" /\ FailedAttempts(wTrace[w]) >= 1) =>
            /\ CountEv(wTrace[w], "log_success") = 1
            /\ CountEv(wTrace[w], "log_failed") = 0

C17_Witness ==
    \E w \in Workers :
        /\ wPc[w] = "returned"
        /\ FailedAttempts(wTrace[w]) >= 1
        /\ CountEv(wTrace[w], "sleep") >= 1
        /\ CountEv(wTrace[w], "log_success") = 1

\* the text has no bracketed structure
NoBrackets(text) ==
    \/ \A i \in DOMAIN text : text[i] # "{"
    \/ \A i \in DOMAIN text : text[i] # "}"

\* the text lacks the list, or an element of the list lacks a field
LacksField(text, list, fields) ==
    \/ \A i \in DOMAIN text : text[i] # list
    \/ \E i \in ItemStarts(text) : \E f \in fields : f \notin ItemFields(text, i)

Malformed(k, text) ==
    \/ /\ k = "quiz_generation"
       /\ \/ NoBrackets(text)
          \/ LacksField(text, "questions", {"question", "type", "correct_answer"})
    \/ /\ k = "flashcard_generation"
       /\ \/ NoBrackets(text)
          \/ LacksField(text, "flashcards", {"question", "answer"})

FormatErrors ==
    {MsgNoJson, MsgBadFormat, MsgNoQuestions, MsgNoFlashcards}
      \cup {MsgQuestionField(f) : f \in {"question", "type", "correct_answer"}}
      \cup {MsgCardField(f) : f \in {"question", "answer"}}

LiveEntries(k) == {e \in cached : e.kind = k /\ now < e.expires}

(* C19: a quiz request that succeeds with validation score >= 80 stores    *)
(* its result in the cache for 2 hours, and a second request with the same *)
(* parameters made before the entry expires returns that result without    *)
(* reaching the provider.                                                  *)
C19_CachedQuizServed ==
    [][\A w \in DOMAIN wPc :
         /\ (/\ wPc[w] = "post" /\ wPc'[w] = "returned"
             /\ wKind[w] = "quiz_generation"
             /\ LastScore(wTrace[w]) >= 80)
              => \E e \in cached' : /\ e.kind = "quiz_generation"
                                    /\ e.expires = now + 7200
                                    /\ e.score = LastScore(wTrace[w])
         /\ (/\ wPc[w] = "idle" /\ wPc'[w] \in {"breaker", "returned"}
             /\ wKind'[w] = "quiz_generation"
             /\ LiveEntries("quiz_generation") # {})
              => /\ wPc'[w] = "returned"
                 /\ \E e \in LiveEntries("quiz_generation") :
                       wTrace'[w] = <<Ev("cache_hit", NoError, e.score)>>]_vars

----------------------------------------------------------------------------
(* SpecCtor: a request builds its service object, QuizGenerationService()  *)
(* in the view and in the celery task, which runs                          *)
(* EnhancedAIService.__init__, and then generates with it.                 *)

ProviderNames == {"openai", "anthropic"}     \* registered with AIProviderFactory
ConfigProviders == ProviderNames \cup {"cohere"}   \* "cohere": no such provider
NoFallback == "None"                         \* config.get('fallback_provider') is None
NoProvider == "none"

MsgDisabled == <<"Service", "quiz_generation", "is", "disabled">>
MsgNoFallbackConfigured == <<"No", "fallback", "provider", "configured">>
MsgNoProvider == <<"No", "working", "AI", "provider", "available">>
ConfigErrors == {MsgDisabled, MsgNoFallbackConfigured, MsgNoProvider}

\* what building a provider of each name does: "ok", "raises" (the API key
\* setting is missing or the client's constructor raises) or "invalid"
\* (validate_config returns False)
ProviderEnvs == [ProviderNames -> {"ok", "raises", "invalid"}]

\* _get_default_config: the same provider and fallback for every service
get_default_config == [provider |-> "openai", fallback_provider |-> "anthropic"]

ConfigRows ==
    {NoConfig}
    \cup {[exists |-> TRUE, is_enabled |-> FALSE, config_data |-> get_default_config]}
    \cup {[exists |-> TRUE, is_enabled |-> TRUE,
           config_data |-> [provider |-> p, fallback_provider |-> f]] :
             p \in ConfigProviders, f \in ProviderNames \cup {NoFallback}}

\* _get_service_config
get_service_config(row) ==
    IF ~row.exists THEN [err |-> NoError, config |-> get_default_config]
    ELSE IF ~row.is_enabled THEN [err |-> MsgDisabled, config |-> row.config_data]
    ELSE [err |-> NoError, config |-> row.config_data]

\* _get_fallback_provider: the fallback is built and not validated
get_fallback_provider(config, env) ==
    IF config.fallback_provider = NoFallback
    THEN [err |-> MsgNoFallbackConfigured, provider |-> NoProvider]
    ELSE IF config.fallback_provider \notin ProviderNames
            \/ env[config.fallback_provider] = "raises"
    THEN [err |-> MsgNoProvider, provider |-> NoProvider]
    ELSE [err |-> NoError, provider |-> config.fallback_provider]

\* mutant: a provider that cannot be obtained is found out at the first use
get_provider_deferred(config, env) ==
    IF config.provider \in ProviderNames /\ env[config.provider] = "ok"
    THEN [err |-> NoError, provider |-> config.provider]
    ELSE [err |-> NoError, provider |-> get_fallback_provider(config, env).provider]

\* _get_provider: the primary provider is built and validated; the fallback
\* is taken when that raises
get_provider(config, env) ==
    IF config.provider \in ProviderNames /\ env[config.provider] = "ok"
    THEN [err |-> NoError, provider |-> config.provider]
    ELSE get_fallback_provider(config, env)

\* 'provider' of the result of generate_content and of its success record
ReportedProvider(s) == s.config.provider

\* ---- the providers' generate_text

BackendErrors == {MsgTimeout, MsgAuth}       \* str(e) of what the backend call raises
TokenCounts == {1500}                        \* tokens the backend reports

\* what client.chat.completions.create / client.messages.create and the
\* reading of its answer do: an answer, or an exception
BackendOutcomes ==
    {[raises |-> FALSE, content |-> t, tokens |-> n, msg |-> NoError] :
        t \in HourTexts, n \in TokenCounts}
    \cup {[raises |-> TRUE, content |-> <<>>, tokens |-> 0, msg |-> m] :
            m \in BackendErrors}

\* COST_PER_1K_TOKENS of the default models, in millionths of a dollar
CostPer1k(provider) == IF provider = "anthropic" THEN 250 ELSE 2000

\* estimate_cost, in millionths of a dollar
estimate_cost(provider, tokens) == (tokens * CostPer1k(provider)) \div 1000

\* mutant: the exception of the backend call leaves generate_text
generate_text_propagates(provider, backend) ==
    [made |-> TRUE, raised |-> backend.raises, success |-> ~backend.raises,
     content |-> backend.content, tokens_used |-> backend.tokens,
     cost_estimate |-> estimate_cost(provider, backend.tokens),
     error_message |-> backend.msg]

\* OpenAIProvider.generate_text / AnthropicProvider.generate_text: the
\* AIResponse returned; `raised` is set when an exception leaves the method
generate_text(provider, backend) ==
    IF backend.raises
    THEN [made |-> TRUE, raised |-> FALSE, success |-> FALSE, content |-> <<>>,
          tokens_used |-> 0, cost_estimate |-> 0, error_message |-> backend.msg]
    ELSE [made |-> TRUE, raised |-> FALSE, success |-> TRUE,
          content |-> backend.content, tokens_used |-> backend.tokens,
          cost_estimate |-> estimate_cost(provider, backend.tokens),
          error_message |-> NoError]

InitCtor ==
    /\ RetryIdle
    /\ BreakersIdle
    /\ HarnessIdle
    /\ LimitsIdle
    /\ sConfig \in ConfigRows
    /\ svc = NoService
    /\ resp = NoResponse
    /\ CryptIdle
    /\ HealthIdle
    /\ RegistryIdle
    /\ ValidatorIdle
    /\ rate = [u \in Users |->
                 [k \in Kinds |-> cache_set(rate_limit - RateHeadroom, rate_window, 0)]]
    /\ usage = [u \in Users |-> 0]
    /\ monthly_limit = [u \in Users |-> MaxMonthlyLimit]
    /\ cached = {}
    /\ wPc = [w \in Workers |-> "idle"]
    /\ wUser = [w \in Workers |-> "u1"]
    /\ wKind = [w \in Workers |-> "quiz_generation"]
    /\ wAttempt = [w \in Workers |-> 0]
    /\ wErr = [w \in Workers |-> NoError]
    /\ wTrace = [w \in Workers |-> <<>>]

\* EnhancedAIService.__init__ at the start of a request; when it raises the
\* request ends with that error
ServiceInit(w, env) ==
    /\ wPc[w] = "idle"
    /\ svc.state = "none"
    /\ LET c == get_service_config(sConfig)
           p == get_provider(c.config, env)
           err == IF c.err # NoError THEN c.err ELSE p.err
       IN  IF err # NoError
           THEN /\ svc' = [state |-> "error", config |-> c.config,
                           provider |-> NoProvider, env |-> env]
                /\ wPc' = [wPc EXCEPT ![w] = "raised"]
                /\ wErr' = [wErr EXCEPT ![w] = err]
                /\ wTrace' = [wTrace EXCEPT ![w] = <<>>]
           ELSE /\ svc' = [state |-> "ready", config |-> c.config,
                           provider |-> p.provider, env |-> env]
                /\ UNCHANGED <<wPc, wErr, wTrace>>
    /\ UNCHANGED <<regVars, cryptVars, healthVars, fnVars, sConfig, resp, rate, usage, monthly_limit, cached, wUser, wKind,
                   wAttempt, retryVars, breakerVars, harnessVars, limitVars>>

\* service.generate_quiz(...) on the object that was built
ServiceGenStart(w, u, k) ==
    /\ svc.state = "ready"
    /\ GenStart(w, u, k)

\* the request is over and its service object is dropped
ServiceDrop(w) ==
    /\ wPc[w] = "idle"
    /\ svc.state # "none"
    /\ svc' = NoService
    /\ UNCHANGED <<regVars, cryptVars, healthVars, fnVars, sConfig, resp, retryVars, breakerVars, harnessVars, svcVars,
                   limitVars>>

\* generate_content calls self.provider.generate_text
ProviderCall(w, backend) ==
    /\ wPc[w] = "provider"
    /\ svc.state = "ready"
    /\ resp' = generate_text(svc.provider, backend)
    /\ wPc' = [wPc EXCEPT ![w] = "response"]
    /\ UNCHANGED <<regVars, cryptVars, healthVars, fnVars, sConfig, svc, rate, usage, monthly_limit, cached, wUser, wKind,
                   wAttempt, wErr, wTrace, retryVars, breakerVars, harnessVars,
                   limitVars>>

\* the rest of the body of generate_content: `if not response.success: raise`,
\* else the content is validated (score sc), the usage logged, the result
\* returned; an exception out of generate_text would leave the body as it is
ResponseCheck(w, sc) ==
    /\ wPc[w] = "response"
    /\ IF resp.raised
       THEN BodyRaises(w, resp.error_message,
                       <<Ev("provider", resp.error_message, 0)>>)
       ELSE IF ~resp.success
       THEN BodyRaises(w, MsgGenFailed \o resp.error_message,
                       <<Ev("provider", resp.error_message, 0)>>)
       ELSE BodyReturns(w, sc, resp.content)
    /\ resp' = NoResponse
    /\ UNCHANGED <<regVars, cryptVars, healthVars, fnVars, sConfig, svc, now, rate, monthly_limit, cached, wUser, wKind,
                   retryVars, harnessVars, limitVars>>

NextCtor ==
    \/ \E w \in Workers, env \in ProviderEnvs : ServiceInit(w, env)
    \/ \E w \in Workers, u \in Users, k \in ProcKinds : ServiceGenStart(w, u, k)
    \/ \E w \in Workers : BreakerEnter(w)
    \/ \E w \in Workers : GenerateCheck(w)
    \/ \E w \in Workers, backend \in BackendOutcomes : ProviderCall(w, backend)
    \/ \E w \in Workers, sc \in HourScores : ResponseCheck(w, sc)
    \/ \E w \in Workers : PostSuccess(w)
    \/ \E w \in Workers : ExceptLog(w)
    \/ \E w \in Workers : Finish(w)
    \/ \E w \in Workers : ServiceDrop(w)

SpecCtor == InitCtor /\ [][NextCtor]_vars

----------------------------------------------------------------------------
(* Claims on the construction of the service (SpecCtor) *)

\* generate_content returned in the current call of worker w
Generated(w) ==
    /\ wPc[w] \in {"post", "returned"}
    /\ \E i \in DOMAIN wTrace[w] : wTrace[w][i].ev = "log_success"

(* C21: when the primary provider could not be built or validated and the  *)
(* fallback provider was obtained, generation runs on the fallback and the *)
(* provider named in the result and in the success usage record is the     *)
(* fallback provider, not the primary.                                     *)
C21_FallbackReported ==
    \A w \in Workers :
        (Generated(w) /\ svc.state = "ready"
         /\ svc.provider = svc.config.fallback_provider
         /\ svc.provider # svc.config.provider)
           => ReportedProvider(svc) = svc.provider

(* C22: a configuration error (service disabled, neither provider          *)
(* obtainable) is raised at the construction of the service, before the    *)
(* request is handled: the provider's generate_text is not invoked,        *)
(* nothing is retried or slept, and the rate-limit counter and the circuit *)
(* breaker stay as they were; generation only runs on a service that has a *)
(* provider.                                                               *)
C22_ConfigErrorAtConstruction ==
    /\ [](\A w \in Workers :
            /\ wErr[w] \in ConfigErrors
                  => (svc.state = "error" /\ wPc[w] = "raised" /\ wTrace[w] = <<>>)
            /\ wPc[w] \notin {"idle", "raised"}
                  => (svc.state = "ready" /\ svc.provider \in ProviderNames))
    /\ [][(svc.state # "error" /\ svc'.state = "error")
            => /\ UNCHANGED <<rate, breakers, usage, cached>>
               /\ \A w \in Workers : wErr'[w] \in ConfigErrors]_vars

C22_Witness ==
    /\ svc.state = "error"
    /\ wErr[1] = MsgNoProvider
    /\ wPc[1] = "raised"
    /\ "ai_service" \in DOMAIN breakers
    /\ breakers["ai_service"].fail_counter > 0
    /\ cache_get(rate["u1"]["quiz_generation"], now) > rate_limit - RateHeadroom

----------------------------------------------------------------------------
(* SpecCrypt: AIUsageTracker.log_usage and the EncryptionManager objects   *)
(* of one process.  A Fernet token is modelled by the key it was made with *)
(* and the text it holds: only that key decrypts it.                       *)

MaxManagers == 3           \* EncryptionManager objects made in a behaviour
MaxRows == 2               \* usage records written in a behaviour

KeySettings == {"unset", "valid", "malformed"}
ConfiguredKey == 0         \* the key that a valid settings.ENCRYPTION_KEY holds
NoKey == -1

MsgBadKey ==
    <<"Fernet", "key", "must", "be", "32", "url-safe", "base64-encoded", "bytes.">>
MsgInvalidToken == <<"InvalidToken">>

\* request_data of a call: {} or a dictionary with entries
Payloads == {<<>>, <<"prompt_length:", "40">>}

\* json.dumps
json_dumps(d) == <<"{">> \o d \o <<"}">>

\* Fernet.generate_key(): a key that no other manager of the process has
generate_key(mgrs) == Len(mgrs) + 1

\* EncryptionManager.__init__: the key of self.cipher, or the error of Fernet(key)
EncryptionManager(setting, mgrs) ==
    IF setting = "unset" THEN [err |-> NoError, key |-> generate_key(mgrs)]
    ELSE IF setting = "malformed" THEN [err |-> MsgBadKey, key |-> NoKey]
    ELSE [err |-> NoError, key |-> ConfiguredKey]

\* EncryptionManager.encrypt
encrypt(key, data) == [enc |-> TRUE, key |-> key, text |-> data]

\* EncryptionManager.decrypt
decrypt(key, token) ==
    IF token.enc /\ token.key = key
    THEN [err |-> NoError, text |-> token.text]
    ELSE [err |-> MsgInvalidToken, text |-> <<>>]

\* log_usage: the manager it made, the rows it created and the error it
\* raised; cipher_ok is whether self.cipher.encrypt worked
log_usage(setting, mgrs, request_data, cipher_ok) ==
    LET em == EncryptionManager(setting, mgrs)
        plain == [enc |-> FALSE, key |-> NoKey, text |-> json_dumps(request_data)]
    IN  IF em.err # NoError
        THEN [err |-> em.err, made |-> <<>>, rows |-> <<>>]
        ELSE [err |-> NoError, made |-> <<em.key>>,
              rows |-> <<IF request_data # <<>> /\ cipher_ok
                         THEN encrypt(em.key, json_dumps(request_data))
                         ELSE plain>>]

Outcome(op, err, rows, problem, plain, value, expected) ==
    [op |-> op, raised |-> err # NoError, err |-> err, rows |-> rows,
     problem |-> problem, plain |-> plain, value |-> value, expected |-> expected]

InitCrypt ==
    /\ RetryIdle
    /\ BreakersIdle
    /\ HarnessIdle
    /\ ServiceIdle
    /\ LimitsIdle
    /\ CtorIdle
    /\ HealthIdle
    /\ RegistryIdle
    /\ ValidatorIdle
    /\ eKey \in KeySettings
    /\ eMgrs = <<>>
    /\ eLogs = <<>>
    /\ eOut = NoOp

\* AIUsageTracker.log_usage(..., request_data=d, ...)
LogUsage(d, cipher_ok) ==
    /\ Len(eMgrs) < MaxManagers
    /\ Len(eLogs) < MaxRows
    /\ LET r == log_usage(eKey, eMgrs, d, cipher_ok)
       IN  /\ eMgrs' = eMgrs \o r.made
           /\ eLogs' = eLogs \o r.rows
           /\ eOut' = Outcome("log_usage", r.err, Len(r.rows),
                              eKey = "malformed" \/ (d # <<>> /\ ~cipher_ok),
                              r.rows # <<>> /\ ~r.rows[1].enc,
                              <<>>, json_dumps(d))
    /\ UNCHANGED <<regVars, eKey, ctorVars, healthVars, fnVars, retryVars, breakerVars,
                   harnessVars, svcVars, limitVars>>

\* EncryptionManager() made somewhere else in the process
NewManager ==
    /\ Len(eMgrs) < MaxManagers
    /\ LET em == EncryptionManager(eKey, eMgrs)
       IN  /\ eMgrs' = IF em.err = NoError THEN Append(eMgrs, em.key) ELSE eMgrs
           /\ eOut' = Outcome("new", em.err, 0, FALSE, FALSE, <<>>, <<>>)
    /\ UNCHANGED <<regVars, eKey, eLogs, ctorVars, healthVars, fnVars, retryVars, breakerVars,
                   harnessVars, svcVars, limitVars>>

\* manager i decrypts the encrypted request_data of row j
Decrypt(i, j) ==
    /\ eLogs[j].enc
    /\ LET r == decrypt(eMgrs[i], eLogs[j])
       IN  eOut' = Outcome("decrypt", r.err, 0, FALSE, FALSE, r.text, eLogs[j].text)
    /\ UNCHANGED <<regVars, eKey, eMgrs, eLogs, ctorVars, healthVars, fnVars, retryVars,
                   breakerVars, harnessVars, svcVars, limitVars>>

NextCrypt ==
    \/ \E d \in Payloads, cipher_ok \in BOOLEAN : LogUsage(d, cipher_ok)
    \/ NewManager
    \/ \E i \in DOMAIN eMgrs, j \in DOMAIN eLogs : Decrypt(i, j)

SpecCrypt == InitCrypt /\ [][NextCrypt]_vars

----------------------------------------------------------------------------
(* Claims on encryption (SpecCrypt) *)

(* C24: log_usage never raises because of an encryption problem, a missing *)
(* or malformed encryption key included: one usage record is persisted by  *)
(* the call, and after an encryption problem its payloads are stored in    *)
(* the plaintext fallback form.                                            *)
C24_LogUsageSurvivesEncryption ==
    eOut.op = "log_usage"
       => /\ ~eOut.raised
          /\ eOut.rows = 1
          /\ eOut.problem => eOut.plain

(* C29: encryption is keyed by one process-wide secret: what one           *)
(* EncryptionManager of the process encrypted, the one inside log_usage    *)
(* included, any other manager of the process decrypts to the plaintext.   *)
C29_OneProcessWideKey ==
    eOut.op = "decrypt" => (~eOut.raised /\ eOut.value = eOut.expected)

----------------------------------------------------------------------------
(* SpecHealth: the generation services and, between their calls, the       *)
(* health check AICircuitBreakerHealthCheck.check_status in the same       *)
(* process.                                                                *)

\* `services` of check_status
HealthServices == {"quiz_generation", "lesson_summary", "flashcard_generation"}

\* status['failure_count'] > 3 is reported as a high failure rate
high_failure_count == 3

\* AIServiceCircuitBreaker.get_status
get_status(b) == [state |-> b.state, failure_count |-> b.fail_counter]

\* _circuit_breakers after get_circuit_breaker was called for every name of S
RECURSIVE LookedUp(_, _)
LookedUp(brs, S) ==
    IF S = {} THEN brs
    ELSE LET name == CHOOSE x \in S : TRUE
         IN  LookedUp(get_circuit_breaker(brs, name), S \ {name})

\* check_status: the registry after the lookups and failed_services
check_status(brs) ==
    LET all == LookedUp(brs, HealthServices)
    IN  [breakers |-> all,
         failed_services |->
            {service \in HealthServices :
                \/ get_status(all[service]).state = "open"
                \/ get_status(all[service]).failure_count > high_failure_count}]

\* a health request: ServiceUnavailable is raised when failed_services is
\* not empty
HealthCheck ==
    /\ \A w \in Workers : wPc[w] = "idle"
    /\ LET r == check_status(breakers)
       IN  /\ breakers' = r.breakers
           /\ health' = [made |-> TRUE,
                         failed_services |-> r.failed_services,
                         raised |-> r.failed_services # {},
                         open_guards |-> {k \in Kinds : Guard(k)[1] = "open"}]
    /\ UNCHANGED <<regVars, now, ctorVars, cryptVars, fnVars, retryVars, harnessVars, svcVars,
                   limitVars>>

NextHealth ==
    \/ \E w \in Workers, u \in Users, k \in ProcKinds : GenStart(w, u, k)
    \/ \E w \in Workers : BreakerEnter(w)
    \/ \E w \in Workers : GenerateCheck(w)
    \/ \E w \in Workers, sc \in HourScores, text \in HourTexts :
          ProviderReturns(w, sc, text)
    \/ \E w \in Workers, m \in HourErrors : ProviderFails(w, m)
    \/ \E w \in Workers : PostSuccess(w)
    \/ \E w \in Workers : ExceptLog(w)
    \/ \E w \in Workers : Finish(w)
    \/ HealthCheck

SpecHealth == Init /\ [][NextHealth]_vars

----------------------------------------------------------------------------
(* Claims on health reporting (SpecHealth) *)

(* C25: whenever the circuit breaker that guards the generation calls of a *)
(* service kind is open, the status that the health check queries for that *)
(* kind, get_circuit_breaker(kind).get_status(), says open, and the health *)
(* check reports that service as failing.                                  *)
C25_OpenBreakerReported ==
    health.made
       => \A k \in Kinds : k \in health.open_guards => k \in health.failed_services

----------------------------------------------------------------------------
(* SpecAuth: generate_quiz calls of a user who has failure_threshold       *)
(* requests left in the hour, against a provider that rejects the API key, *)
(* times out or answers.                                                   *)

AuthErrors == {MsgAuth, MsgUnauthorized}
AuthRunErrors == AuthErrors \cup {MsgTimeout}

InitAuth ==
    /\ RetryIdle
    /\ BreakersIdle
    /\ HarnessIdle
    /\ LimitsIdle
    /\ AuxIdle
    /\ rate = [u \in Users |->
                 [k \in Kinds |->
                    cache_set(rate_limit - failure_threshold, rate_window, 0)]]
    /\ usage = [u \in Users |-> 0]
    /\ monthly_limit = [u \in Users |-> MaxMonthlyLimit]
    /\ cached = {}
    /\ wPc = [w \in Workers |-> "idle"]
    /\ wUser = [w \in Workers |-> "u1"]
    /\ wKind = [w \in Workers |-> "quiz_generation"]
    /\ wAttempt = [w \in Workers |-> 0]
    /\ wErr = [w \in Workers |-> NoError]
    /\ wTrace = [w \in Workers |-> <<>>]

NextAuth ==
    \/ \E w \in Workers, u \in Users, k \in ProcKinds : GenStart(w, u, k)
    \/ \E w \in Workers : BreakerEnter(w)
    \/ \E w \in Workers : GenerateCheck(w)
    \/ \E w \in Workers, sc \in HourScores, text \in HourTexts :
          ProviderReturns(w, sc, text)
    \/ \E w \in Workers, m \in AuthRunErrors : ProviderFails(w, m)
    \/ \E w \in Workers : PostSuccess(w)
    \/ \E w \in Workers : ExceptLog(w)
    \/ \E w \in Workers : Finish(w)

SpecAuth == InitAuth /\ [][NextAuth]_vars

----------------------------------------------------------------------------
(* Claims on provider authentication failures (SpecAuth) *)

\* event i of the trace is a provider response that failed with an
\* authentication or authorization error
AuthFailedAt(tr, i) ==
    i \in DOMAIN tr /\ tr[i].ev = "provider" /\ tr[i].out \in AuthErrors

----------------------------------------------------------------------------
(* Claims on rejected requests and the breaker (Spec) *)

\* the last thing the call of worker w did was a usage check that rejected
RejectedNow(tr) ==
    /\ tr # <<>>
    /\ \E i \in DOMAIN tr :
          /\ tr[i].ev = "check" /\ tr[i].out # NoError
          /\ \A j \in (i + 1)..Len(tr) : tr[j].ev = "sleep"

(* C30: a quota or rate-limit rejection is not a breaker failure: a        *)
(* generate call that check_usage_limit rejects leaves the failure counter *)
(* and the state of the circuit breaker as they were, so rejected requests *)
(* never open the circuit.                                                 *)
C30_RejectionNotBreakerFailure ==
    [][\A w \in Workers :
          (wPc[w] = "attempt" /\ RejectedNow(wTrace'[w]))
             => Guard(wKind[w])' = Guard(wKind[w])]_vars

----------------------------------------------------------------------------
(* SpecValidate: ContentValidator.validate_educational_content on one      *)
(* text.  A text is a sequence of characters; the verdict of the profanity *)
(* classifier (profanity_check.predict) is an input next to it.            *)

MaxWords == 3              \* words a text is made of

\* the words the texts are made of
Vocabulary ==
    { <<"L", "e", "a", "r", "n">>,
      <<"Q", "u", "e", "s", "t", "i", "o", "n">>,
      <<"s", "k", "y">>,
      <<"?">>,
      <<" ">> }

RECURSIVE Flatten(_)
Flatten(ws) == IF ws = <<>> THEN <<>> ELSE Head(ws) \o Flatten(Tail(ws))

WordSeqs == UNION {[1..n -> Vocabulary] : n \in 0..MaxWords}

ValidatorInputs ==
    {[content |-> Flatten(ws), profane |-> p] : ws \in WordSeqs, p \in BOOLEAN}

\* educational_keywords
educational_keywords ==
    { <<"l", "e", "a", "r", "n">>,
      <<"u", "n", "d", "e", "r", "s", "t", "a", "n", "d">>,
      <<"c", "o", "n", "c", "e", "p", "t">>,
      <<"e", "x", "a", "m", "p", "l", "e">>,
      <<"d", "e", "f", "i", "n", "i", "t", "i", "o", "n">>,
      <<"e", "x", "p", "l", "a", "i", "n">>,
      <<"d", "e", "m", "o", "n", "s", "t", "r", "a", "t", "e">>,
      <<"a", "n", "a", "l", "y", "z", "e">>,
      <<"c", "o", "m", "p", "a", "r", "e">>,
      <<"e", "v", "a", "l", "u", "a", "t", "e">> }

\* str.lower on the characters of the vocabulary
lower_char(c) == IF c = "L" THEN "l" ELSE IF c = "Q" THEN "q" ELSE c

str_lower(s) == [i \in DOMAIN s |-> lower_char(s[i])]

\* str.strip
RECURSIVE str_strip(_)
str_strip(s) ==
    IF s = <<>> THEN s
    ELSE IF Head(s) = " " THEN str_strip(Tail(s))
    ELSE IF s[Len(s)] = " " THEN str_strip(SubSeq(s, 1, Len(s) - 1))
    ELSE s

\* `sub in s` on strings
str_in(sub, s) ==
    \E i \in 1..(Len(s) - Len(sub) + 1) : SubSeq(s, i, i + Len(sub) - 1) = sub

\* what validate_educational_content tests of the content
content_issues(content, profane) ==
    LET content_lower == str_lower(content)
        educational_score ==
            Cardinality({keyword \in educational_keywords :
                            str_in(keyword, content_lower)})
    IN  [profane |-> profane,
         short |-> Len(str_strip(content)) < 10,
         noKeyword |-> educational_score = 0,
         noQuestionMark |->
            str_in(<<"q", "u", "e", "s", "t", "i", "o", "n">>, content_lower)
            /\ ~str_in(<<"?">>, content),
         educational_keywords_found |-> educational_score]

\* validate_educational_content(content)
validate_content(content, profane) ==
    LET i == content_issues(content, profane)
        r == validate_educational_content(i.profane, i.short, i.noKeyword,
                                          i.noQuestionMark)
    IN  [is_valid |-> r.is_valid, score |-> r.score,
         issues |-> {n \in {"profane", "short", "noKeyword", "noQuestionMark"} : i[n]},
         educational_keywords_found |-> i.educational_keywords_found]

InitValidate ==
    /\ RetryIdle
    /\ BreakersIdle
    /\ HarnessIdle
    /\ ServiceIdle
    /\ LimitsIdle
    /\ CtorIdle
    /\ CryptIdle
    /\ HealthIdle
    /\ RegistryIdle
    /\ fIn \in ValidatorInputs
    /\ fOut = NoResult

\* ContentValidator.validate_educational_content(fIn)
Validate ==
    /\ ~fOut.made
    /\ fOut' = [made |-> TRUE, op |-> "validate",
                result |-> validate_content(fIn.content, fIn.profane)]
    /\ UNCHANGED <<regVars, fIn, ctorVars, cryptVars, healthVars, retryVars, breakerVars,
                   harnessVars, svcVars, limitVars>>

NextValidate == Validate

SpecValidate == InitValidate /\ [][NextValidate]_vars

----------------------------------------------------------------------------
(* Claims on the content validator (SpecValidate) *)

Penalty(issues) ==
    (IF "profane" \in issues THEN 50 ELSE 0)
    + (IF "short" \in issues THEN 30 ELSE 0)
    + (IF "noKeyword" \in issues THEN 20 ELSE 0)
    + (IF "noQuestionMark" \in issues THEN 10 ELSE 0)

(* C28: validate_educational_content returns score = max(0, 100 - 50 for   *)
(* profanity - 30 for a trimmed length under 10 - 20 for no pedagogy       *)
(* keyword - 10 for 'question' without '?'); so the score is in 0..100, a  *)
(* text with none of the four issues scores 100, more issues never give a  *)
(* higher score, and is_valid is true exactly when the score is >= 70.     *)
C28_ScoreFormula ==
    fOut.made
       => LET r == fOut.result
              expected == 100 - Penalty(r.issues)
          IN  /\ r.score = (IF expected < 0 THEN 0 ELSE expected)
              /\ r.score \in 0..100
              /\ r.issues = {} => r.score = 100
              /\ r.is_valid <=> r.score >= 70
              /\ ("short" \in r.issues) <=> (Len(str_strip(fIn.content)) < 10)
              /\ ("profane" \in r.issues) <=> fIn.profane
              /\ \A p, s, n, q \in BOOLEAN :
                    LET more == validate_educational_content(
                                    p \/ "profane" \in r.issues,
                                    s \/ "short" \in r.issues,
                                    n \/ "noKeyword" \in r.issues,
                                    q \/ "noQuestionMark" \in r.issues)
                    IN  more.score <= r.score

\* the floor: all four issues, 100 - 110 is returned as 0
C28_Witness ==
    /\ fOut.made
    /\ Cardinality(fOut.result.issues) = 4
    /\ fOut.result.score = 0
    /\ ~fOut.result.is_valid

----------------------------------------------------------------------------
(* SpecSanitize: ContentValidator.sanitize_user_input on one text, and on  *)
(* its own result.  bleach.clean(text, tags=[], strip=True) is modelled on *)
(* texts without markup: it escapes a bare "<" as "&lt;" and an ampersand  *)
(* that does not begin a character entity (a name ended by ";") as         *)
(* "&amp;", and leaves the entities it finds as they are.                  *)

MaxInputLength == 5        \* settings.AI_MAX_INPUT_LENGTH of the model
MaxChars == 4              \* length of the texts given to the sanitizer

\* the characters of the inputs; "1" stands for any character that is not
\* markup, so that "<" never begins a tag
InputChars == {"1", " ", "<", "&"}

SanitizerInputs == UNION {[1..n -> InputChars] : n \in 0..MaxChars}

EntityLt == <<"&", "l", "t", ";">>
EntityAmp == <<"&", "a", "m", "p", ";">>
Ellipsis == <<".", ".", ".">>

StartsWith(s, prefix) ==
    Len(s) >= Len(prefix) /\ SubSeq(s, 1, Len(prefix)) = prefix

Drop(s, n) == SubSeq(s, n + 1, Len(s))

\* bleach.clean(user_input, tags=[], strip=True)
RECURSIVE bleach_clean(_)
bleach_clean(s) ==
    IF s = <<>> THEN <<>>
    ELSE IF Head(s) = "<" THEN EntityLt \o bleach_clean(Tail(s))
    ELSE IF Head(s) = "&"
    THEN IF StartsWith(s, EntityLt)
         THEN EntityLt \o bleach_clean(Drop(s, Len(EntityLt)))
         ELSE IF StartsWith(s, EntityAmp)
         THEN EntityAmp \o bleach_clean(Drop(s, Len(EntityAmp)))
         ELSE EntityAmp \o bleach_clean(Tail(s))
    ELSE <<Head(s)>> \o bleach_clean(Tail(s))

\* re.sub(r'\s+', ' ', s)
RECURSIVE collapse_whitespace(_)
collapse_whitespace(s) ==
    IF Len(s) < 2 THEN s
    ELSE IF s[1] = " " /\ s[2] = " " THEN collapse_whitespace(Tail(s))
    ELSE <<s[1]>> \o collapse_whitespace(Tail(s))

\* sanitize_user_input
sanitize_user_input(user_input) ==
    LET cleaned == bleach_clean(user_input)
        sanitized == str_strip(collapse_whitespace(cleaned))
        max_length == MaxInputLength
    IN  IF Len(sanitized) > max_length
        THEN SubSeq(sanitized, 1, max_length) \o Ellipsis
        ELSE sanitized

InitSanitize ==
    /\ RetryIdle
    /\ BreakersIdle
    /\ HarnessIdle
    /\ ServiceIdle
    /\ LimitsIdle
    /\ CtorIdle
    /\ CryptIdle
    /\ HealthIdle
    /\ RegistryIdle
    /\ fIn \in SanitizerInputs
    /\ fOut = NoResult

\* sanitize_user_input(fIn)
Sanitize ==
    /\ ~fOut.made
    /\ fOut' = [made |-> TRUE, op |-> "sanitize", input |-> fIn,
                result |-> sanitize_user_input(fIn)]
    /\ UNCHANGED <<regVars, fIn, ctorVars, cryptVars, healthVars, retryVars, breakerVars,
                   harnessVars, svcVars, limitVars>>

\* sanitize_user_input on what it returned
SanitizeAgain ==
    /\ fOut.made
    /\ fOut.op = "sanitize"
    /\ fOut' = [made |-> TRUE, op |-> "sanitize_again", input |-> fOut.result,
                result |-> sanitize_user_input(fOut.result)]
    /\ UNCHANGED <<regVars, fIn, ctorVars, cryptVars, healthVars, retryVars, breakerVars,
                   harnessVars, svcVars, limitVars>>

NextSanitize ==
    \/ Sanitize
    \/ SanitizeAgain

SpecSanitize == InitSanitize /\ [][NextSanitize]_vars

----------------------------------------------------------------------------
(* Claims on the sanitizer (SpecSanitize) *)

(* C27: sanitize_user_input is idempotent: sanitizing what it returned     *)
(* gives the same text again, also for inputs longer than the maximum      *)
(* length, which are cut to max_length characters with '...' appended.     *)
C27_SanitizeIdempotent ==
    (fOut.made /\ fOut.op = "sanitize_again") => fOut.result = fOut.input

----------------------------------------------------------------------------
(* Claims on the order of usage check, breaker and retry loop (Spec) *)

\* the usage checks of a call that let the call go on: each of them stored
\* current_count + 1 under the (user, service) key
GrantedChecks(tr) ==
    Cardinality({i \in DOMAIN tr : tr[i].ev = "check" /\ tr[i].out = NoError})

(* C31: the usage-limit check runs once per generate call, outside the     *)
(* retry loop: a call that needs k provider attempts has made one          *)
(* check_usage_limit and raised the rate-limit counter of its (user,       *)
(* service) key by one, not by k.                                          *)
C31_OneCheckPerCall ==
    \A w \in Workers :
        /\ CountEv(wTrace[w], "check") <= 1
        /\ GrantedChecks(wTrace[w]) <= 1

\* the provider calls of the trace that failed with a transient error
TransientFailures(tr) ==
    Cardinality({i \in DOMAIN tr : tr[i].ev = "provider" /\ tr[i].out = MsgTimeout})

ParseFailed(w) ==
    /\ wPc[w] \in {"except", "raised"}
    /\ wErr[w] \in FormatErrors
    /\ CountEv(wTrace[w], "log_success") = 1

(* C33: a parse or format error on the generated text is not retried and   *)
(* is not a breaker failure: when _parse_quiz_response or                  *)
(* _parse_flashcards_response fails after the provider returned, the       *)
(* provider is not invoked again and the state and failure counter of the  *)
(* breaker stay as they were.                                              *)
C33_ParseErrorOutsideWrappers ==
    /\ [](\A w \in Workers :
            ParseFailed(w)
               => LET tr == wTrace[w]
                      last == CHOOSE i \in DOMAIN tr : tr[i].ev = "log_success"
                  IN  \A j \in (last + 1)..Len(tr) : tr[j].ev = "log_failed")
    /\ [][\A w \in Workers :
            (ParseFailed(w)' /\ wPc[w] \in {"post", "except"})
               => /\ breakers' = breakers
                  /\ ProviderCalls(wTrace'[w]) = ProviderCalls(wTrace[w])
                  /\ CountEv(wTrace'[w], "sleep") = CountEv(wTrace[w], "sleep")]_vars

\* a quiz whose second attempt returned a text without 'correct_answer':
\* one provider failure, one success, the breaker closed with no failure
C33_Witness ==
    /\ wPc[1] = "raised"
    /\ wKind[1] = "quiz_generation"
    /\ wErr[1] = MsgQuestionField("correct_answer")
    /\ ProviderCalls(wTrace[1]) = 2
    /\ CountEv(wTrace[1], "log_success") = 1
    /\ breakers["ai_service"].state = "closed"
    /\ breakers["ai_service"].fail_counter = 0

----------------------------------------------------------------------------
(* Claims on the failure counter of the breaker (SpecBreaker) *)

(* C34: a closed breaker opens only on failure_threshold failures in a     *)
(* row: a call that succeeds sets the failure counter to 0, the counter of *)
(* a closed breaker is the number of failed calls since the last success,  *)
(* and the breaker goes from closed to open only with the call that is the *)
(* failure_threshold-th failure in a row.                                  *)
C34_OpensOnConsecutiveOnly ==
    /\ [](\A n \in DOMAIN breakers :
            breakers[n].state = "closed"
               => /\ breakers[n].fail_counter = gConsec[n]
                  /\ breakers[n].fail_counter < failure_threshold)
    /\ [][\A c \in Callers :
            (hPc[c] # "idle" /\ hPc'[c] = "idle")
               => LET n == hPc[c] IN
                  /\ hOut'.kind # "fail" => breakers'[n].fail_counter = 0
                  /\ (breakers[n].state = "closed" /\ breakers'[n].state = "open")
                        => /\ hOut'.kind = "fail"
                           /\ gConsec[n] = failure_threshold - 1
                           /\ gConsec'[n] = failure_threshold]_vars

\* the breaker opened once, closed again after a successful trial, and has
\* since counted failure_threshold - 1 failures in a row without opening
C34_Witness ==
    /\ "ai_service" \in DOMAIN breakers
    /\ breakers["ai_service"].state = "closed"
    /\ breakers["ai_service"].fail_counter = failure_threshold - 1
    /\ gOpenedAt["ai_service"] # NoTime
    /\ hOut.kind = "fail"

(* C35: under any interleaving of concurrent failing calls through one     *)
(* breaker the failure counter never exceeds failure_threshold, and the    *)
(* breaker goes from closed to open once per cycle: a step opens it only   *)
(* from closed or half-open, by the one caller that holds it.              *)
C35_CounterBounded ==
    /\ [](\A n \in DOMAIN breakers : breakers[n].fail_counter <= failure_threshold)
    /\ [][\A n \in DOMAIN breakers :
            (breakers'[n].state = "open" /\ breakers[n].state # "open")
               => /\ Inside(n) = {breakers[n].lock}
                  /\ breakers'[n].opened_at = now]_vars

----------------------------------------------------------------------------
(* SpecRegistry: get_circuit_breaker(service_name) called by the threads   *)
(* of one process, each of which then makes a call through the breaker it  *)
(* got.  The function tests the dictionary, stores a new breaker and reads *)
(* the dictionary again in three statements, with no lock around them;     *)
(* another thread can run between any two.                                 *)

MaxInstances == 3          \* breaker objects built in one behaviour
MaxCounted == 2            \* failures counted on one breaker object

InitRegistry ==
    /\ RetryIdle
    /\ BreakersIdle
    /\ HarnessIdle
    /\ ServiceIdle
    /\ LimitsIdle
    /\ AuxIdle

\* `if service_name not in _circuit_breakers:` and, when the name is there,
\* `return _circuit_breakers[service_name]`
RegistryTest(c, n) ==
    /\ tPc[c] = "idle"
    /\ tName' = [tName EXCEPT ![c] = n]
    /\ IF n \in DOMAIN registry
       THEN /\ tPc' = [tPc EXCEPT ![c] = "call"]
            /\ tHeld' = [tHeld EXCEPT ![c] = registry[n]]
       ELSE /\ tPc' = [tPc EXCEPT ![c] = "create"]
            /\ tHeld' = tHeld
    /\ UNCHANGED <<registry, instances, ctorVars, cryptVars, healthVars, fnVars,
                   retryVars, breakerVars, harnessVars, svcVars, limitVars>>

\* `_circuit_breakers[service_name] = AIServiceCircuitBreaker(service_name)`
RegistryStore(c) ==
    /\ tPc[c] = "create"
    /\ Len(instances) < MaxInstances
    /\ instances' = Append(instances, [name |-> tName[c], fail_counter |-> 0])
    /\ registry' = [n \in DOMAIN registry \cup {tName[c]} |->
                       IF n = tName[c] THEN Len(instances) + 1 ELSE registry[n]]
    /\ tPc' = [tPc EXCEPT ![c] = "return"]
    /\ UNCHANGED <<tName, tHeld, ctorVars, cryptVars, healthVars, fnVars,
                   retryVars, breakerVars, harnessVars, svcVars, limitVars>>

\* `return _circuit_breakers[service_name]` after the store
RegistryReturn(c) ==
    /\ tPc[c] = "return"
    /\ tHeld' = [tHeld EXCEPT ![c] = registry[tName[c]]]
    /\ tPc' = [tPc EXCEPT ![c] = "call"]
    /\ UNCHANGED <<registry, instances, tName, ctorVars, cryptVars, healthVars, fnVars,
                   retryVars, breakerVars, harnessVars, svcVars, limitVars>>

\* breaker.call(func, ...) on the object the thread got: func returns or raises
RegistryCall(c, o) ==
    /\ tPc[c] = "call"
    /\ o = "fail" => instances[tHeld[c]].fail_counter < MaxCounted
    /\ instances' = [instances EXCEPT ![tHeld[c]].fail_counter =
                        IF o = "fail" THEN @ + 1 ELSE 0]
    /\ tPc' = [tPc EXCEPT ![c] = "idle"]
    /\ tHeld' = [tHeld EXCEPT ![c] = NoObject]
    /\ UNCHANGED <<registry, tName, ctorVars, cryptVars, healthVars, fnVars,
                   retryVars, breakerVars, harnessVars, svcVars, limitVars>>

NextRegistry ==
    \/ \E c \in Callers, n \in Names : RegistryTest(c, n)
    \/ \E c \in Callers : RegistryStore(c)
    \/ \E c \in Callers : RegistryReturn(c)
    \/ \E c \in Callers, o \in {"ok", "fail"} : RegistryCall(c, o)

SpecRegistry == InitRegistry /\ [][NextRegistry]_vars

----------------------------------------------------------------------------
(* Claims on the registry of breakers (SpecRegistry) *)

(* C36: get_circuit_breaker returns the same breaker object for a name on  *)
(* every call, also when several threads make the first call for the name  *)
(* at the same time: one object is built per name, every thread holds the  *)
(* object stored under the name it asked for, and no failure is counted on *)
(* an object that later calls do not get.                                  *)
C36_OneBreakerPerName ==
    /\ \A i, j \in DOMAIN instances :
          instances[i].name = instances[j].name => i = j
    /\ \A c \in Callers :
          tPc[c] = "call" => tHeld[c] = registry[tName[c]]
    /\ \A i \in DOMAIN instances :
          instances[i].fail_counter > 0 => registry[instances[i].name] = i

----------------------------------------------------------------------------
(* Claims on the expiry of the rate-limit counter (SpecRate) *)

\* the calls before call i of the history that returned true in the
\* `window` seconds up to call i
GrantedBefore(i) ==
    {j \in 1..(i - 1) : lHist[j].ok /\ lHist[j].t >= lHist[i].t - lWindow}

(* C37: check_rate_limit is never over-restrictive: it returns false for a *)
(* key only if at least `limit` calls for the key returned true in the     *)
(* preceding `window` seconds, and a call that is accepted does not move   *)
(* the expiry of the window that earlier calls started.                    *)
C37_NeverOverRestrictive ==
    /\ [](\A i \in DOMAIN lHist :
            ~lHist[i].ok => Cardinality(GrantedBefore(i)) >= lLimit)
    /\ [][\A c \in Callers :
            (lPc[c] = "set" /\ lPc'[c] = "idle" /\ cache_get(lStore, now) > 0)
               => lStore'.expires = lStore.expires]_vars

----------------------------------------------------------------------------
(* Claims on what a call leaves behind (Spec) *)

(* C38: a generation call that ends by raising consumes no monthly quota:  *)
(* whatever made generate_quiz, generate_summary or generate_flashcards    *)
(* raise, the call has written no success=true usage record, so the user's *)
(* count of such records for the month is what it was before the call.     *)
C38_RaisedCallUsesNoQuota ==
    \A w \in Workers :
        wPc[w] \in {"except", "raised"} => CountEv(wTrace[w], "log_success") = 0

(* C39: a cache hit short-circuits the whole pipeline: the cached result   *)
(* is returned with no usage-limit check, no change of the rate-limit      *)
(* counter, no provider call, no usage record and no GeneratedContent      *)
(* record, whoever asks, a user whose quota or hourly rate is used up      *)
(* included.                                                               *)
C39_CacheHitShortCircuits ==
    /\ [](\A w \in Workers :
            CountEv(wTrace[w], "cache_hit") > 0
               => /\ Len(wTrace[w]) = 1
                  /\ wPc[w] = "returned"
                  /\ wErr[w] = NoError)
    /\ [][\A w \in Workers :
            (wPc[w] = "idle" /\ wPc'[w] = "returned")
               => /\ CountEv(wTrace'[w], "cache_hit") = 1
                  /\ rate' = rate
                  /\ usage' = usage
                  /\ cached' = cached
                  /\ breakers' = breakers]_vars

\* a summary served from the cache to a user whose monthly quota and whose
\* requests of the hour are used up
C39_Witness ==
    /\ wPc[1] = "returned"
    /\ wKind[1] = "lesson_summary"
    /\ CountEv(wTrace[1], "cache_hit") = 1
    /\ usage[wUser[1]] >= monthly_limit[wUser[1]]
    /\ cache_get(rate[wUser[1]]["lesson_summary"], now) >= rate_limit

----------------------------------------------------------------------------
(* Claims on the provider a service is built with (SpecCtor) *)

(* C40: a service is only ever constructed with a working provider: the    *)
(* provider installed, primary or fallback, is one whose validate_config() *)
(* returned true, and when the primary cannot be used and the fallback's   *)
(* configuration is invalid the construction fails with 'No working AI     *)
(* provider available'.                                                    *)
C40_InstalledProviderValidated ==
    /\ svc.state = "ready" => svc.env[svc.provider] = "ok"
    /\ (/\ svc.state \in {"ready", "error"}
        /\ sConfig.exists => sConfig.is_enabled
        /\ ~(svc.config.provider \in ProviderNames
             /\ svc.env[svc.config.provider] = "ok")
        /\ svc.config.fallback_provider \in ProviderNames
        /\ svc.env[svc.config.fallback_provider] = "invalid")
          => /\ svc.state = "error"
             /\ wErr[1] = MsgNoProvider

=============================================================================
